---- MODULE Spec2Model ----
(***************************************************************************)
(* A model of the lite-client query engine of adnl-rpc: the chain-head     *)
(* cache (ton/last_block.rs), the connection pool's health callbacks       *)
(* (ton/adnl_pool.rs), the account-state resolver, the transaction page    *)
(* and the key-block walker (ton/mod.rs, ton/connection.rs), the           *)
(* TransactionId comparison (adnl_rpc_models), the subscription registry   *)
(* and notifier (api/state.rs, ton/mod.rs), send_message with the error    *)
(* codes the dispatch layer relays (ton/errors.rs, api/mod.rs) and the     *)
(* health check (api/mod.rs).                                              *)
(*                                                                         *)
(* Every component has its own variables and its own specification; a      *)
(* specification leaves the variables of the other components unchanged.   *)
(***************************************************************************)
EXTENDS Integers, Sequences, FiniteSets, TLC

\* ------------------------------------------------------------------ bounds

\* Sequence numbers the peer may report as the masterchain head.
MaxSeqno == 6
\* Ticks of the monotonic clock (Instant::now()).
MaxTime == 4
\* The configured freshness threshold (last_block_cache_duration), in ticks.
Threshold == 1

\* Concurrent tasks calling get_last_block.
Callers == {"t1", "t2"}

\* Tasks running engine operations on the pool.
PTasks == {"a", "b"}

\* Operations each task starts.
MaxCalls == 2

\* The reliability counter is followed up to this value.
MaxUnreliability == 7

\* The history counters saturate here ("this many or more").
CountCap == 2

\* State::new: .max_size(config.max_connection_count), a pool of one connection.
max_size == 1

Slots == 1..max_size

\* Logical times and hashes of the TransactionId values compared.
MaxLt == 3

MaxHash == 2

\* Sequence numbers of the heads and history entries the resolver is run on.
MaxRSeqno == 5

\* Root cells a proof blob may deserialize to.
MaxRoots == 3

\* Logical times and hashes carried by account-state responses.
MaxRespLt == 2

\* Sequence numbers of the masterchain blocks the key-block walk meets.
MaxKSeqno == 3

\* Wall-clock readings and block generation times of the key-block walk.
MaxUtime == 2

\* Websocket connections accepted by add_connection.
MaxConnections == 2

\* last_block.rs: const MAX_ENQUEUED_BLOCKS: usize = 5;
MAX_ENQUEUED_BLOCKS == 5

\* ------------------------------------------------------------ value domains

\* The error kinds a query of the chain head can end with (ton/errors.rs and
\* QueryReply::try_into_data).
QueryErrors == {"ConnectionError", "NotReady"}

\* BlockIdExt as the cache sees it: only seqno is compared.
BlockIds == [seqno : 1..MaxSeqno]

NoBlock == [seqno |-> 0]

Ok(b) == [ok |-> TRUE, val |-> b, err |-> "none"]

Err(e) == [ok |-> FALSE, val |-> NoBlock, err |-> e]

\* QueryResult<BlockIdExt>
QueryResults == {Ok(b) : b \in BlockIds} \cup {Err(e) : e \in QueryErrors}

\* Option<(QueryResult<BlockIdExt>, Instant)>
None == [some |-> FALSE, result |-> Err("none"), last |-> 0]

Some(r, t) == [some |-> TRUE, result |-> r, last |-> t]

\* ---------------------------------------------------------------- variables

VARIABLES
    \* the chain-head cache (LastBlock, LastBlockState)
    now,          \* the monotonic clock
    id,           \* state.id
    blocks,       \* state.blocks, front first
    in_process,   \* the in-flight flag
    cpc,          \* each caller's position in get_last_block
    cnow,         \* each caller's local `now`
    cfirst,       \* history: the caller found no cached value when it read
    state_guard,  \* the guard on `state` each caller holds where it rests
    lastfail,     \* history: the last failed refresh, while within the threshold
    fetch,        \* history: the last successful fetch written to the cache
    evicted,      \* history: pop_back has run
    ev,           \* what the last step of get_last_block did
    \* the connection pool and its health tracker (AdnlManageConnection, State::pool)
    unreliability,  \* the shared reliability counter
    pslot,          \* each pool slot: "empty", "connecting", "idle" or "loaned"
    palive,         \* whether the peer still answers on the slot's connection
    pbroken,        \* the connection's has_broken flag
    ppc,            \* each task's position in its operation
    pheld,          \* the slot a task holds or validates (0: none)
    pcalls,         \* operations a task has started
    pret,           \* how a task's last operation ended
    pev,            \* the health event of the last step
    u_before,       \* history: the counter before the last step
    n_ping_failed,  \* history: failed liveness pings, saturating at CountCap
    n_connect_ok,   \* history: connections established, saturating at CountCap
    \* TransactionId comparison (adnl_rpc_models)
    tx_a, tx_b,     \* the two ids
    tx_eq,          \* a == b
    tx_cmp,         \* a.cmp(&b)
    tx_done,        \* the comparison has run
    \* the account-state resolver and the transaction page (State in ton/mod.rs)
    r_op,           \* the operation called: "get_contract_state" or "get_transactions"
    r_from,         \* get_transactions: the `from` argument, then the resolved id
    r_pc,           \* the await point the operation is at
    r_head,         \* get_contract_state: last_block_id
    r_iter,         \* get_contract_state: what is left of previous_block_ids
    r_sent,         \* history: the queries issued to the peer, in order
    r_answers,      \* history: how each account-state query ended, in order
    r_resp,         \* the account-state response that was decoded
    r_state,        \* what get_contract_state returned
    r_ret,          \* what the operation returned
    r_held,         \* pooled connections the operation holds
    \* get_latest_key_block (State in ton/mod.rs)
    k_pc,           \* the await point the call is at
    k_head,         \* last_block_id
    k_info,         \* the header of the head block
    k_resolved,     \* the id the LookupBlock query resolved to
    k_sent,         \* history: the queries issued to the peer, in order
    k_ret,          \* what the call returned
    k_time_diff,    \* history: time_diff when the call was made
    time_diff,      \* State.time_diff
    \* the subscription registry and the notifier (State in api/state.rs)
    CONNECTION_ID,          \* the static connection counter
    address_subscriptions,  \* address -> the ids subscribed, or NoEntry
    reading,        \* connections whose add_connection loop is reading requests
    sink_open,      \* connections whose receiving end (rx) is alive
    n_pc,           \* transaction_monitoring: the await point it is at
    addresses_callbacks,    \* transaction_monitoring: the snapshot of this tick
    n_todo,         \* addresses of the snapshot still to visit
    n_address,      \* the address being visited
    n_callbacks,    \* ids of that address still to send to
    n_id,           \* the id whose send failed
    n_pruned,       \* history: (address, id) pruned and not subscribed again
    n_ev,           \* what the last step of the registry or the notifier did
    n_got,          \* history: pool.get succeeded in this tick
    n_failed,       \* history: addresses whose status query failed in this tick
    n_sent,         \* history: (address, id) a notification was sent to in this tick
    n_guard,        \* the guard on the registry transaction_monitoring holds where it rests
    ws_guard,       \* the guard on the registry each connection's loop holds where it rests
    \* one call of query (ton/connection.rs)
    q_pc,           \* the await point the call is at
    q_retries,      \* let mut retries
    q_sent,         \* history: requests sent on the connection by this call
    q_elapsed,      \* history: milliseconds slept by this call
    q_replies,      \* history: what each round-trip ended with, in order
    q_ret,          \* what the call returned
    \* the decoding of one account-state response (get_contract_state)
    d_resp,         \* the response
    d_wall,         \* the wall clock when it is decoded
    d_state,        \* the result
    d_done,         \* the decoding has run
    \* the health check (healthcheck in api/mod.rs)
    h_status,       \* the status of the last reply: 200, 503, or 0 before any
    \* one call of send_message (State in ton/mod.rs), relayed by wrap
    s_pc,           \* the await point the call is at
    s_ret,          \* what send_message returned
    s_relayed       \* what wrap put in the response

cacheVars == <<now, id, blocks, in_process, cpc, cnow, cfirst, state_guard, lastfail, fetch,
              evicted, ev>>

poolVars == <<unreliability, pslot, palive, pbroken, ppc, pheld, pcalls, pret, pev, u_before,
              n_ping_failed, n_connect_ok>>

txVars == <<tx_a, tx_b, tx_eq, tx_cmp, tx_done>>

resolverVars == <<r_op, r_from, r_pc, r_head, r_iter, r_sent, r_answers, r_resp, r_state,
                  r_ret, r_held>>

keyBlockVars == <<k_pc, k_head, k_info, k_resolved, k_sent, k_ret, k_time_diff, time_diff>>

notifierVars == <<CONNECTION_ID, address_subscriptions, reading, sink_open, n_pc,
                  addresses_callbacks, n_todo, n_address, n_callbacks, n_id, n_pruned,
                  n_ev, n_got, n_failed, n_sent, n_guard, ws_guard>>

queryVars == <<q_pc, q_retries, q_sent, q_elapsed, q_replies, q_ret>>

decodeVars == <<d_resp, d_wall, d_state, d_done>>

healthVars == <<h_status>>

sendVars == <<s_pc, s_ret, s_relayed>>

vars == <<cacheVars, poolVars, txVars, resolverVars, keyBlockVars, notifierVars, queryVars,
          decodeVars, healthVars, sendVars>>

\* What the actions of one component leave unchanged: the other components.
notCache == <<poolVars, txVars, resolverVars, keyBlockVars, notifierVars, queryVars,
    decodeVars, healthVars, sendVars>>

notPool == <<cacheVars, txVars, resolverVars, keyBlockVars, notifierVars, queryVars,
    decodeVars, healthVars, sendVars>>

notTx == <<cacheVars, poolVars, resolverVars, keyBlockVars, notifierVars, queryVars,
    decodeVars, healthVars, sendVars>>

notResolver == <<cacheVars, poolVars, txVars, keyBlockVars, notifierVars, queryVars,
    decodeVars, healthVars, sendVars>>

notKeyBlock == <<cacheVars, poolVars, txVars, resolverVars, notifierVars, queryVars,
    decodeVars, healthVars, sendVars>>

notNotifier == <<cacheVars, poolVars, txVars, resolverVars, keyBlockVars, queryVars,
    decodeVars, healthVars, sendVars>>

notQuery == <<cacheVars, poolVars, txVars, resolverVars, keyBlockVars, notifierVars,
    decodeVars, healthVars, sendVars>>

notHealth == <<cacheVars, poolVars, txVars, resolverVars, keyBlockVars, notifierVars,
    queryVars, decodeVars, sendVars>>

\* What send_message leaves unchanged besides the call of query it makes.
notSendNorQuery == <<cacheVars, poolVars, txVars, resolverVars, keyBlockVars, notifierVars,
    decodeVars, healthVars>>

notDecode == <<cacheVars, poolVars, txVars, resolverVars, keyBlockVars, notifierVars,
    queryVars, healthVars, sendVars>>

\* ------------------------------------------------------- the chain-head cache

\* What the last step of get_last_block did: "cached" (returned the cached
\* result), "query" (went on to the remote query), "fetched" (stored and
\* returned the query's result); "none" after any other step.
NoEvent == [kind |-> "none", task |-> "none", ret |-> Err("none"), seen |-> None,
            prior |-> None, at |-> 0, flag |-> FALSE, first |-> FALSE]

\* The guards of a read/write lock a task can hold.
NoGuard == "none"

ReadGuard == "read"

WriteGuard == "write"

\* The guard on `state` a caller of get_last_block holds at the await point
\* that follows a locked section. The read guard is local to the block that
\* computes `now` and is dropped where the block ends, before the query; the
\* write guard is taken after the query and dropped when the function returns.
StateGuardKeptOverQuery(section) == IF section = "read" THEN ReadGuard ELSE NoGuard

StateGuardAfter(section) == NoGuard

\* LastBlock::new and LastBlockState::new
CacheInit ==
    /\ now = 0
    /\ id = None
    /\ blocks = <<>>
    /\ in_process = FALSE
    /\ cpc = [t \in Callers |-> "idle"]
    /\ cnow = [t \in Callers |-> 0]
    /\ cfirst = [t \in Callers |-> FALSE]
    /\ state_guard = [t \in Callers |-> NoGuard]
    /\ lastfail = None
    /\ fetch = None
    /\ evicted = FALSE
    /\ ev = NoEvent

\* now.duration_since(*last) < self.threshold
IsFreshEarly(n, last) == n - last < Threshold - 1

IsFresh(n, last) == n - last < Threshold

\* The condition of the early return: the cached value is fresh, or the
\* compare_exchange(false, true) on in_process fails because it is set.
ReturnsCachedWhenFresh(fresh, flag) == fresh

ReturnsCached(fresh, flag) == fresh \/ flag

\* The history update of a successful fetch.
PushBlockAlways(ring, new_id) ==
    IF Len(ring) >= MAX_ENQUEUED_BLOCKS
    THEN <<new_id>> \o SubSeq(ring, 1, Len(ring) - 1)
    ELSE <<new_id>> \o ring

PushBlock(ring, new_id) ==
    IF ring = <<>> THEN <<new_id>>
    ELSE IF new_id.seqno > Head(ring).seqno
         THEN IF Len(ring) >= MAX_ENQUEUED_BLOCKS
              THEN <<new_id>> \o SubSeq(ring, 1, Len(ring) - 1)
              ELSE <<new_id>> \o ring
         ELSE ring

\* What get_last_block returns after its query: `id`, the query's result.
ReturnedCachedBefore(r, cached) == IF cached.some THEN cached.result ELSE r

Returned(r, cached) == r

\* Whether that update ran pop_back.
Evicts(ring, new_id) ==
    /\ ring # <<>>
    /\ new_id.seqno > Head(ring).seqno
    /\ Len(ring) >= MAX_ENQUEUED_BLOCKS

\* Instant::now() advances.
Tick ==
    /\ now < MaxTime
    /\ now' = now + 1
    /\ ev' = NoEvent
    /\ lastfail' = IF lastfail.some /\ IsFresh(now', lastfail.last) THEN lastfail ELSE None
    /\ UNCHANGED <<id, blocks, in_process, cpc, cnow, cfirst, state_guard, fetch, evicted>>
    /\ UNCHANGED notCache

\* get_last_block up to its first await: the read-locked section. A fresh
\* cached value, or a stale one whose refresh another caller holds, is returned;
\* otherwise the caller goes on to the remote query, having set the flag if a
\* cached value exists.
ReadCache(t) ==
    /\ cpc[t] = "idle"
    /\ IF id.some /\ ReturnsCached(IsFresh(now, id.last), in_process)
       THEN /\ ev' = [kind |-> "cached", task |-> t, ret |-> id.result, seen |-> id,
                      prior |-> fetch, at |-> now, flag |-> in_process, first |-> FALSE]
            /\ UNCHANGED <<in_process, cpc, cnow, cfirst>>
       ELSE /\ in_process' = (IF id.some THEN TRUE ELSE in_process)
            /\ cpc' = [cpc EXCEPT ![t] = "query"]
            /\ cnow' = [cnow EXCEPT ![t] = now]
            /\ cfirst' = [cfirst EXCEPT ![t] = ~id.some]
            /\ ev' = [kind |-> "query", task |-> t, ret |-> Err("none"), seen |-> id,
                      prior |-> fetch, at |-> now, flag |-> in_process,
                      first |-> ~id.some]
    /\ state_guard' = [state_guard EXCEPT ![t] = StateGuardAfter("read")]
    /\ UNCHANGED <<now, id, blocks, lastfail, fetch, evicted>>
    /\ UNCHANGED notCache

\* The GetMasterchainInfo query ends with r; the write-locked section stores
\* it, updates the history and clears the flag.
FinishFetch(t, r) ==
    /\ cpc[t] = "query"
    /\ id' = Some(r, cnow[t])
    /\ blocks' = IF r.ok THEN PushBlock(blocks, r.val) ELSE blocks
    /\ evicted' = (evicted \/ (r.ok /\ Evicts(blocks, r.val)))
    /\ fetch' = IF r.ok THEN Some(r, cnow[t]) ELSE fetch
    /\ in_process' = FALSE
    /\ lastfail' = IF r.ok \/ cfirst[t] THEN lastfail
                   ELSE IF IsFresh(now, cnow[t]) THEN Some(r, cnow[t]) ELSE None
    /\ ev' = [kind |-> "fetched", task |-> t, ret |-> Returned(r, id), seen |-> None,
              prior |-> None, at |-> cnow[t], flag |-> in_process, first |-> cfirst[t]]
    /\ cpc' = [cpc EXCEPT ![t] = "idle"]
    /\ cnow' = [cnow EXCEPT ![t] = 0]
    /\ cfirst' = [cfirst EXCEPT ![t] = FALSE]
    /\ state_guard' = [state_guard EXCEPT ![t] = StateGuardAfter("write")]
    /\ UNCHANGED now
    /\ UNCHANGED notCache

NextCache ==
    \/ Tick
    \/ \E t \in Callers : ReadCache(t)
    \/ \E t \in Callers, r \in QueryResults : FinishFetch(t, r)

\* The future of a get_last_block call is dropped at its await point, the
\* query (the request it served was abandoned): nothing after line 59 runs
\* for it, neither the write to the cache nor the store to in_process.
Drop(t) ==
    /\ cpc[t] = "query"
    /\ cpc' = [cpc EXCEPT ![t] = "idle"]
    /\ cnow' = [cnow EXCEPT ![t] = 0]
    /\ cfirst' = [cfirst EXCEPT ![t] = FALSE]
    /\ ev' = [NoEvent EXCEPT !.kind = "dropped", !.task = t, !.at = cnow[t],
                             !.flag = in_process, !.first = cfirst[t]]
    /\ UNCHANGED <<now, id, blocks, in_process, state_guard, lastfail, fetch, evicted>>
    /\ UNCHANGED notCache

\* What the queries of droppable callers end with: two heads and an error.
DropResults == {Ok([seqno |-> 1]), Ok([seqno |-> 2]), Err("ConnectionError")}

\* get_last_block with callers that may be dropped.
NextCacheDrop ==
    \/ Tick
    \/ \E t \in Callers : ReadCache(t)
    \/ \E t \in Callers, r \in DropResults : FinishFetch(t, r)
    \/ \E t \in Callers : Drop(t)

\* ------------------------------------------------- the connection pool

\* The pool's view of AdnlManageConnection. The pool itself is bb8's: on every
\* checkout it validates the candidate with is_valid (test_on_check_out) and
\* discards a candidate that fails; a returned connection that has_broken is
\* discarded; connections are opened on demand up to max_size.

\* The pool starts empty and the counter at 0 (State::new).
PoolInit ==
    /\ unreliability = 0
    /\ pslot = [s \in Slots |-> "empty"]
    /\ palive = [s \in Slots |-> FALSE]
    /\ pbroken = [s \in Slots |-> FALSE]
    /\ ppc = [t \in PTasks |-> "idle"]
    /\ pheld = [t \in PTasks |-> 0]
    /\ pcalls = [t \in PTasks |-> 0]
    /\ pret = [t \in PTasks |-> "none"]
    /\ pev = "none"
    /\ u_before = 0
    /\ n_ping_failed = 0
    /\ n_connect_ok = 0

\* self.unreliability.fetch_add(points, Ordering::Release). fetch_add wraps at
\* usize::MAX, which MaxUnreliability keeps out of reach.
bump_unreliability_by_one(u, points) == u + 1

bump_unreliability(u, points) == u + points

\* self.unreliability.store(0, Ordering::Release)
reset_unreliability(u) == 0

\* connect, Ok branch: "don't reset unreliability here"; the counter is not
\* touched.
connect_Ok_resetting(u) == 0

connect_Ok(u) == u

\* is_valid: the ping's result decides between Ok and Err.
is_valid_always(alive) == TRUE

is_valid(alive) == alive

Saturate(n) == IF n < CountCap THEN n + 1 ELSE n

Waiting == {t \in PTasks : ppc[t] = "wait"}

InState(st) == {s \in Slots : pslot[s] = st}

\* An operation starts: self.acquire_connection() calls pool.get().
StartCall(t) ==
    /\ ppc[t] = "idle"
    /\ pcalls[t] < MaxCalls
    /\ ppc' = [ppc EXCEPT ![t] = "wait"]
    /\ pcalls' = [pcalls EXCEPT ![t] = @ + 1]
    /\ pret' = [pret EXCEPT ![t] = "none"]
    /\ pev' = "other"
    /\ u_before' = unreliability
    /\ UNCHANGED notPool
    /\ UNCHANGED <<unreliability, pslot, palive, pbroken, pheld, n_ping_failed, n_connect_ok>>

\* pool.get() pops an idle connection and starts is_valid on it.
TakeIdle(t, s) ==
    /\ ppc[t] = "wait"
    /\ pslot[s] = "idle"
    /\ pslot' = [pslot EXCEPT ![s] = "loaned"]
    /\ pheld' = [pheld EXCEPT ![t] = s]
    /\ ppc' = [ppc EXCEPT ![t] = "ping"]
    /\ pev' = "other"
    /\ u_before' = unreliability
    /\ UNCHANGED notPool
    /\ UNCHANGED <<unreliability, palive, pbroken, pcalls, pret, n_ping_failed, n_connect_ok>>

\* is_valid, Ok branch: the counter is reset and the connection handed out.
PingOk(t) ==
    /\ ppc[t] = "ping"
    /\ is_valid(palive[pheld[t]])
    /\ unreliability' = reset_unreliability(unreliability)
    /\ ppc' = [ppc EXCEPT ![t] = "held"]
    /\ pev' = "ping_ok"
    /\ u_before' = unreliability
    /\ UNCHANGED notPool
    /\ UNCHANGED <<pslot, palive, pbroken, pheld, pcalls, pret, n_ping_failed, n_connect_ok>>

\* is_valid, Err branch: the counter is bumped by 1; the pool discards the
\* connection and the acquisition goes on.
PingFailed(t) ==
    /\ ppc[t] = "ping"
    /\ ~is_valid(palive[pheld[t]])
    /\ unreliability + 1 <= MaxUnreliability
    /\ unreliability' = bump_unreliability(unreliability, 1)
    /\ pslot' = [pslot EXCEPT ![pheld[t]] = "empty"]
    /\ pheld' = [pheld EXCEPT ![t] = 0]
    /\ ppc' = [ppc EXCEPT ![t] = "wait"]
    /\ pev' = "ping_failed"
    /\ u_before' = unreliability
    /\ UNCHANGED notPool
    /\ n_ping_failed' = Saturate(n_ping_failed)
    /\ UNCHANGED <<palive, pbroken, pcalls, pret, n_connect_ok>>

\* The pool opens a connection for a waiting caller that has none coming.
SpawnConnect(s) ==
    /\ pslot[s] = "empty"
    /\ Cardinality(Waiting) > Cardinality(InState("connecting")) + Cardinality(InState("idle"))
    /\ pslot' = [pslot EXCEPT ![s] = "connecting"]
    /\ pev' = "other"
    /\ u_before' = unreliability
    /\ UNCHANGED notPool
    /\ UNCHANGED <<unreliability, palive, pbroken, ppc, pheld, pcalls, pret,
                   n_ping_failed, n_connect_ok>>

\* connect, Ok branch: the counter is left alone.
ConnectOk(s) ==
    /\ pslot[s] = "connecting"
    /\ pslot' = [pslot EXCEPT ![s] = "idle"]
    /\ palive' = [palive EXCEPT ![s] = TRUE]
    /\ pbroken' = [pbroken EXCEPT ![s] = FALSE]
    /\ pev' = "connect_ok"
    /\ u_before' = unreliability
    /\ UNCHANGED notPool
    /\ n_connect_ok' = Saturate(n_connect_ok)
    /\ unreliability' = connect_Ok(unreliability)
    /\ UNCHANGED <<ppc, pheld, pcalls, pret, n_ping_failed>>

\* connect, Err branch: the counter is bumped by 5; the pool tries again or
\* gives the attempt up.
ConnectFailed(s, retry) ==
    /\ pslot[s] = "connecting"
    /\ unreliability + 5 <= MaxUnreliability
    /\ unreliability' = bump_unreliability(unreliability, 5)
    /\ pslot' = [pslot EXCEPT ![s] = IF retry THEN "connecting" ELSE "empty"]
    /\ pev' = "connect_failed"
    /\ u_before' = unreliability
    /\ UNCHANGED notPool
    /\ UNCHANGED <<palive, pbroken, ppc, pheld, pcalls, pret, n_ping_failed, n_connect_ok>>

\* The peer stops answering on an open connection.
PeerDrops(s) ==
    /\ pslot[s] \in {"idle", "loaned"}
    /\ palive[s]
    /\ palive' = [palive EXCEPT ![s] = FALSE]
    /\ pev' = "other"
    /\ u_before' = unreliability
    /\ UNCHANGED notPool
    /\ UNCHANGED <<unreliability, pslot, pbroken, ppc, pheld, pcalls, pret,
                   n_ping_failed, n_connect_ok>>

\* pool.get() gives up waiting: acquire_connection maps it to ConnectionError.
AcquireTimeout(t) ==
    /\ ppc[t] = "wait"
    /\ ppc' = [ppc EXCEPT ![t] = "idle"]
    /\ pret' = [pret EXCEPT ![t] = "ConnectionError"]
    /\ pev' = "other"
    /\ u_before' = unreliability
    /\ UNCHANGED notPool
    /\ UNCHANGED <<unreliability, pslot, palive, pbroken, pheld, pcalls, n_ping_failed,
                   n_connect_ok>>

\* The outcomes of a query on the held connection: data, an error of the
\* peer, or a transport failure (which may set has_broken).
QueryOutcomes == {"ok", "QueryError", "ConnectionError"}

CanEnd(s, o) == o = "ConnectionError" \/ palive[s]

\* The operation returns: its PooledConnection is dropped, and the pool keeps
\* the connection unless it has_broken.
ReturnWith(t, o, broken) ==
    /\ pbroken' = [pbroken EXCEPT ![pheld[t]] = broken]
    /\ pslot' = [pslot EXCEPT ![pheld[t]] = IF broken THEN "empty" ELSE "idle"]
    /\ pheld' = [pheld EXCEPT ![t] = 0]
    /\ ppc' = [ppc EXCEPT ![t] = "idle"]
    /\ pret' = [pret EXCEPT ![t] = o]

\* get_contract_state, first await on the connection: get_last_block. An error
\* returns at once (the ? operator).
HeadQuery(t, o, broken) ==
    /\ ppc[t] = "held"
    /\ CanEnd(pheld[t], o)
    /\ broken => o = "ConnectionError"
    /\ IF o = "ok"
       THEN /\ ppc' = [ppc EXCEPT ![t] = "queried"]
            /\ UNCHANGED <<pslot, pbroken, pheld, pret>>
       ELSE ReturnWith(t, o, broken)
    /\ pev' = "other"
    /\ u_before' = unreliability
    /\ UNCHANGED notPool
    /\ UNCHANGED <<unreliability, palive, pcalls, n_ping_failed, n_connect_ok>>

\* get_contract_state, the account-state query and the return.
StateQuery(t, o, broken) ==
    /\ ppc[t] = "queried"
    /\ CanEnd(pheld[t], o)
    /\ broken => o = "ConnectionError"
    /\ ReturnWith(t, o, broken)
    /\ pev' = "other"
    /\ u_before' = unreliability
    /\ UNCHANGED notPool
    /\ UNCHANGED <<unreliability, palive, pcalls, n_ping_failed, n_connect_ok>>

NextPool ==
    \/ \E t \in PTasks : StartCall(t)
    \/ \E t \in PTasks, s \in Slots : TakeIdle(t, s)
    \/ \E t \in PTasks : PingOk(t)
    \/ \E t \in PTasks : PingFailed(t)
    \/ \E s \in Slots : SpawnConnect(s)
    \/ \E s \in Slots : ConnectOk(s)
    \/ \E s \in Slots, retry \in BOOLEAN : ConnectFailed(s, retry)
    \/ \E s \in Slots : PeerDrops(s)
    \/ \E t \in PTasks : AcquireTimeout(t)
    \/ \E t \in PTasks, o \in QueryOutcomes, b \in BOOLEAN : HeadQuery(t, o, b)
    \/ \E t \in PTasks, o \in QueryOutcomes, b \in BOOLEAN : StateQuery(t, o, b)

\* The scenario of two calls on a pool whose single connection has died: the
\* connection is idle and the peer no longer answers on it; from then on the
\* peer is healthy.
ScenarioInit ==
    /\ unreliability = 0
    /\ pslot = [s \in Slots |-> "idle"]
    /\ palive = [s \in Slots |-> FALSE]
    /\ pbroken = [s \in Slots |-> FALSE]
    /\ ppc = [t \in PTasks |-> "idle"]
    /\ pheld = [t \in PTasks |-> 0]
    /\ pcalls = [t \in PTasks |-> 0]
    /\ pret = [t \in PTasks |-> "none"]
    /\ pev = "none"
    /\ u_before = 0
    /\ n_ping_failed = 0
    /\ n_connect_ok = 0

NextScenario ==
    \/ \E t \in PTasks : StartCall(t)
    \/ \E t \in PTasks, s \in Slots : TakeIdle(t, s)
    \/ \E t \in PTasks : PingOk(t)
    \/ \E t \in PTasks : PingFailed(t)
    \/ \E s \in Slots : SpawnConnect(s)
    \/ \E s \in Slots : ConnectOk(s)
    \/ \E t \in PTasks : HeadQuery(t, "ok", FALSE)
    \/ \E t \in PTasks : StateQuery(t, "ok", FALSE)

\* -------------------------------------------------------- TransactionId

\* TransactionId { lt: u64, hash: UInt256 }
TransactionIds == [lt : 0..MaxLt, hash : 0..MaxHash]

\* impl PartialEq for TransactionId
TransactionId_eq_derived(a, b) == a.lt = b.lt /\ a.hash = b.hash

TransactionId_eq(a, b) == a.lt = b.lt

\* impl Ord for TransactionId: self.lt.cmp(&other.lt); partial_cmp is Some(cmp).
TransactionId_cmp(a, b) ==
    IF a.lt < b.lt THEN "Less"
    ELSE IF a.lt = b.lt THEN "Equal"
    ELSE "Greater"

\* No comparison has run.
TxIdle ==
    /\ tx_a = [lt |-> 0, hash |-> 0]
    /\ tx_b = [lt |-> 0, hash |-> 0]
    /\ tx_eq = FALSE
    /\ tx_cmp = "none"
    /\ tx_done = FALSE

\* Any two ids.
TxDraw ==
    /\ tx_a \in TransactionIds
    /\ tx_b \in TransactionIds
    /\ tx_eq = FALSE
    /\ tx_cmp = "none"
    /\ tx_done = FALSE

\* a == b and a.cmp(&b) are evaluated.
Compare ==
    /\ ~tx_done
    /\ tx_eq' = TransactionId_eq(tx_a, tx_b)
    /\ tx_cmp' = TransactionId_cmp(tx_a, tx_b)
    /\ tx_done' = TRUE
    /\ UNCHANGED <<tx_a, tx_b>>
    /\ UNCHANGED notTx

NextTx == Compare

\* ------------------------------------- get_contract_state, get_transactions

\* Block ids and history rings the resolver meets: a ring is what the cache
\* holds after fetching consecutive heads, strictly decreasing by seqno and at
\* most MAX_ENQUEUED_BLOCKS long.
RBlockIds == [seqno : 1..MaxRSeqno]

RECURSIVE Descending(_)
Descending(S) ==
    IF S = {} THEN <<>>
    ELSE LET m == CHOOSE x \in S : \A y \in S : y <= x
         IN <<[seqno |-> m]>> \o Descending(S \ {m})

Rings ==
    UNION {{Descending(lo..hi) : hi \in {n \in 1..MaxRSeqno :
                                           n >= lo /\ n - lo < MAX_ENQUEUED_BLOCKS}} :
           lo \in 1..MaxRSeqno}

\* The proof blob of a response, by what each decoding step makes of it:
\* deserialize_cells_tree (cells, roots), MerkleProof::construct_from_cell
\* (merkle), ShardStateUnsplit::construct_from (ss), read_accounts and get
\* (entry: "err", "none" or "some" with last_trans_lt and last_trans_hash);
\* gen_lt and gen_utime are those of the shard state.
NoProof == [cells |-> FALSE, roots |-> 0, merkle |-> FALSE, ss |-> FALSE,
            entry |-> "err", lt |-> 0, hash |-> 0, gen_lt |-> 0, gen_utime |-> 0]

ProofBlobs ==
    {NoProof}
    \cup {[NoProof EXCEPT !.cells = TRUE, !.roots = n] : n \in 0..MaxRoots}
    \cup {[NoProof EXCEPT !.cells = TRUE, !.roots = n, !.merkle = TRUE] : n \in 1..MaxRoots}
    \cup {[NoProof EXCEPT !.cells = TRUE, !.roots = n, !.merkle = TRUE, !.ss = TRUE,
                          !.entry = e] : n \in 1..MaxRoots, e \in {"err", "none"}}
    \cup {[cells |-> TRUE, roots |-> n, merkle |-> TRUE, ss |-> TRUE, entry |-> "some",
           lt |-> 1, hash |-> 1, gen_lt |-> 1, gen_utime |-> 0] : n \in 1..MaxRoots}
    \cup {[cells |-> TRUE, roots |-> 2, merkle |-> TRUE, ss |-> TRUE, entry |-> "some",
           lt |-> l, hash |-> h, gen_lt |-> g, gen_utime |-> u] :
              l \in 1..MaxRespLt, h \in 1..MaxRespLt, g \in 1..MaxRespLt, u \in 0..MaxUtime}

\* The account record of a response: Account::Account with its own
\* last_trans_lt, Account::AccountNone, or bytes that do not decode.
AccountRecords ==
    {[variant |-> "Account", last_trans_lt |-> l] : l \in 1..MaxRespLt}
    \cup {[variant |-> "AccountNone", last_trans_lt |-> 0],
          [variant |-> "undecodable", last_trans_lt |-> 0]}

Responses == [state : AccountRecords, proof : ProofBlobs]

\* The responses get_contract_state is run on: those of one shard-state time.
ResolverResponses == {resp \in Responses : resp.proof.gen_lt <= 1 /\ resp.proof.gen_utime = 0}

\* chrono::Utc::now().timestamp(), in seconds
WallClocks == {10 + u : u \in 0..MaxUtime}

NoResponse == [state |-> [variant |-> "none", last_trans_lt |-> 0], proof |-> NoProof]

\* QueryResult<RawContractState>
StateErr(e) == [ok |-> FALSE, err |-> e, kind |-> "none", account_lt |-> 0,
                gen_lt |-> 0, gen_utime |-> 0, lt |-> 0, hash |-> 0]

NotExists == [ok |-> TRUE, err |-> "none", kind |-> "NotExists", account_lt |-> 0,
              gen_lt |-> 0, gen_utime |-> 0, lt |-> 0, hash |-> 0]

Exists(account, gen_lt, gen_utime, lt, hash) ==
    [ok |-> TRUE, err |-> "none", kind |-> "Exists", account_lt |-> account.last_trans_lt,
     gen_lt |-> gen_lt, gen_utime |-> gen_utime, lt |-> lt, hash |-> hash]

NoState == StateErr("none")

\* The catch-all arm of the match on the decoded account record (line 205):
\* AccountNone, and bytes that fail to decode.
OtherRecordRejected(variant) == StateErr("InvalidAccountState")

OtherRecord(variant) == NotExists

\* get_contract_state from the response on: lines 164-206. wall is the
\* reading of chrono::Utc::now() taken when Exists is built; the cast of
\* wall - 10 to u32 changes no value of WallClocks.
DecodeFromAccountRecord(resp, wall) ==
    IF resp.state.variant = "Account"
    THEN IF ~resp.proof.cells THEN StateErr("InvalidAccountStateProof")
         ELSE IF resp.proof.roots # 2 THEN StateErr("InvalidAccountStateProof")
         ELSE IF ~resp.proof.merkle THEN StateErr("InvalidAccountStateProof")
         ELSE IF ~resp.proof.ss THEN StateErr("InvalidAccountStateProof")
         ELSE IF resp.proof.entry = "err" THEN StateErr("InvalidAccountStateProof")
         ELSE IF resp.proof.entry = "some"
              THEN Exists(resp.state, resp.proof.gen_lt, wall - 10,
                          resp.state.last_trans_lt, resp.proof.hash)
              ELSE NotExists
    ELSE NotExists

DecodeAtLeastTwoRoots(resp, wall) ==
    IF resp.state.variant = "Account"
    THEN IF ~resp.proof.cells THEN StateErr("InvalidAccountStateProof")
         ELSE IF resp.proof.roots < 2 THEN StateErr("InvalidAccountStateProof")
         ELSE IF ~resp.proof.merkle THEN StateErr("InvalidAccountStateProof")
         ELSE IF ~resp.proof.ss THEN StateErr("InvalidAccountStateProof")
         ELSE IF resp.proof.entry = "err" THEN StateErr("InvalidAccountStateProof")
         ELSE IF resp.proof.entry = "some"
              THEN Exists(resp.state, resp.proof.gen_lt, wall - 10,
                          resp.proof.lt, resp.proof.hash)
              ELSE NotExists
    ELSE NotExists

DecodeAccountState(resp, wall) ==
    IF resp.state.variant = "Account"
    THEN IF ~resp.proof.cells THEN StateErr("InvalidAccountStateProof")
         ELSE IF resp.proof.roots # 2 THEN StateErr("InvalidAccountStateProof")
         ELSE IF ~resp.proof.merkle THEN StateErr("InvalidAccountStateProof")
         ELSE IF ~resp.proof.ss THEN StateErr("InvalidAccountStateProof")
         ELSE IF resp.proof.entry = "err" THEN StateErr("InvalidAccountStateProof")
         ELSE IF resp.proof.entry = "some"
              THEN Exists(resp.state, resp.proof.gen_lt, wall - 10,
                          resp.proof.lt, resp.proof.hash)
              ELSE NotExists
    ELSE OtherRecord(resp.state.variant)

\* QueryResult<RawTransactionsList>
PageErr(e) == [ok |-> FALSE, err |-> e, page |-> "none"]

PageOk(p) == [ok |-> TRUE, err |-> "none", page |-> p]

NoReturn == [ok |-> FALSE, err |-> "pending", page |-> "none"]

\* Option<TransactionId>
NoFrom == [some |-> FALSE, lt |-> 0, hash |-> 0]

SomeFrom(l, h) == [some |-> TRUE, lt |-> l, hash |-> h]

\* The errors query() returns (connection.rs lines 55-83).
PeerErrors == {"ConnectionError", "LiteServer", "Unknown"}

\* The queries issued to the peer.
AccountStateQuery(b) == [q |-> "GetAccountState", seqno |-> b.seqno, lt |-> 0, hash |-> 0]

TransactionsQuery(from) == [q |-> "GetTransactions", seqno |-> 0, lt |-> from.lt,
                            hash |-> from.hash]

\* .skip_while(|block| block.seqno < last_block_id.seqno)
RECURSIVE SkipWhileOlder(_, _)
SkipWhileOlder(ring, head) ==
    IF ring # <<>> /\ Head(ring).seqno < head.seqno
    THEN SkipWhileOlder(Tail(ring), head)
    ELSE ring

\* result.try_into_data()? on QueryReply::NotReady, the history exhausted.
NotReadyAsNotExists == NotExists

try_into_data_NotReady == StateErr("NotReady")

\* No operation is running.
ResolverInit ==
    /\ r_op = "none"
    /\ r_from = NoFrom
    /\ r_pc = "idle"
    /\ r_head = NoBlock
    /\ r_iter = <<>>
    /\ r_sent = <<>>
    /\ r_answers = <<>>
    /\ r_resp = NoResponse
    /\ r_state = NoState
    /\ r_ret = NoReturn
    /\ r_held = 0

\* get_transactions, the match on the resolved state (lines 217-228): Exists
\* gives the starting id, NotExists returns an empty page.
AfterStateFailing(st) ==
    IF ~st.ok THEN [next |-> "return", ret |-> PageErr(st.err), from |-> NoFrom]
    ELSE IF st.kind = "Exists"
         THEN [next |-> "query", ret |-> NoReturn, from |-> SomeFrom(st.lt, st.hash)]
         ELSE [next |-> "return", ret |-> PageErr("InvalidAccountState"), from |-> NoFrom]

AfterState(st) ==
    IF ~st.ok THEN [next |-> "return", ret |-> PageErr(st.err), from |-> NoFrom]
    ELSE IF st.kind = "Exists"
         THEN [next |-> "query", ret |-> NoReturn, from |-> SomeFrom(st.lt, st.hash)]
         ELSE [next |-> "return", ret |-> PageOk("empty"), from |-> NoFrom]

\* The connections get_contract_state drops when it returns: the one it
\* acquired at line 125, unless it returns from that acquisition.
DroppedByGetContractState == IF r_pc = "acquire" THEN 0 ELSE 1

\* get_contract_state returns st and drops its connection; a get_transactions
\* that called it goes on with its own, or returns and drops that too.
StateReturns(st, sent) ==
    /\ r_state' = st
    /\ IF r_op = "get_contract_state"
       THEN /\ r_pc' = "done"
            /\ r_ret' = IF st.ok THEN PageOk("none") ELSE PageErr(st.err)
            /\ r_sent' = sent
            /\ r_held' = r_held - DroppedByGetContractState
            /\ UNCHANGED r_from
       ELSE LET a == AfterState(st) IN
            IF a.next = "query"
            THEN /\ r_pc' = "gt_query"
                 /\ r_from' = a.from
                 /\ r_sent' = Append(sent, TransactionsQuery(a.from))
                 /\ r_held' = r_held - DroppedByGetContractState
                 /\ UNCHANGED r_ret
            ELSE /\ r_pc' = "done"
                 /\ r_ret' = a.ret
                 /\ r_sent' = sent
                 /\ r_held' = r_held - DroppedByGetContractState - 1
                 /\ UNCHANGED r_from

\* A caller invokes get_contract_state(address).
CallGetContractState ==
    /\ r_pc = "idle"
    /\ r_op' = "get_contract_state"
    /\ r_pc' = "acquire"
    /\ UNCHANGED <<r_from, r_head, r_iter, r_sent, r_resp, r_state, r_ret, r_held>>
    /\ UNCHANGED r_answers
    /\ UNCHANGED notResolver

\* A caller invokes get_transactions(address, from, count).
CallGetTransactions(from) ==
    /\ r_pc = "idle"
    /\ r_op' = "get_transactions"
    /\ r_from' = from
    /\ r_pc' = "gt_acquire"
    /\ UNCHANGED <<r_head, r_iter, r_sent, r_resp, r_state, r_ret, r_held>>
    /\ UNCHANGED r_answers
    /\ UNCHANGED notResolver

\* get_transactions: acquire_connection, then the starting id is taken from
\* the argument or resolved through get_contract_state.
GtAcquire(ok) ==
    /\ r_pc = "gt_acquire"
    /\ IF ~ok
       THEN /\ r_pc' = "done"
            /\ r_ret' = PageErr("ConnectionError")
            /\ UNCHANGED r_sent
       ELSE IF r_from.some
            THEN /\ r_pc' = "gt_query"
                 /\ r_sent' = Append(r_sent, TransactionsQuery(r_from))
                 /\ UNCHANGED r_ret
            ELSE /\ r_pc' = "acquire"
                 /\ UNCHANGED <<r_sent, r_ret>>
    /\ r_held' = IF ok THEN r_held + 1 ELSE r_held
    /\ UNCHANGED <<r_op, r_from, r_head, r_iter, r_resp, r_state>>
    /\ UNCHANGED r_answers
    /\ UNCHANGED notResolver

\* get_contract_state: acquire_connection.
Acquire(ok) ==
    /\ r_pc = "acquire"
    /\ IF ok
       THEN /\ r_pc' = "head"
            /\ r_held' = r_held + 1
            /\ UNCHANGED <<r_from, r_sent, r_state, r_ret>>
       ELSE StateReturns(StateErr("ConnectionError"), r_sent)
    /\ UNCHANGED <<r_op, r_head, r_iter, r_resp>>
    /\ UNCHANGED r_answers
    /\ UNCHANGED notResolver

\* get_contract_state: get_last_block returns; the account-state query is
\* issued at that block.
GotHead(r) ==
    /\ r_pc = "head"
    /\ IF r.ok
       THEN /\ r_head' = r.val
            /\ r_pc' = "state"
            /\ r_sent' = Append(r_sent, AccountStateQuery(r.val))
            /\ UNCHANGED <<r_from, r_state, r_ret, r_held>>
       ELSE /\ StateReturns(StateErr(r.err), r_sent)
            /\ UNCHANGED r_head
    /\ UNCHANGED <<r_op, r_iter, r_resp>>
    /\ UNCHANGED r_answers
    /\ UNCHANGED notResolver

\* The account-state query yields data: it is decoded and the result returned.
StateData(resp, wall) ==
    /\ r_pc \in {"state", "fallback"}
    /\ r_resp' = resp
    /\ r_answers' = Append(r_answers, "Data")
    /\ StateReturns(DecodeAccountState(resp, wall), r_sent)
    /\ UNCHANGED <<r_op, r_head, r_iter>>
    /\ UNCHANGED notResolver

\* The account-state query fails: the error is returned.
StateError(e) ==
    /\ r_pc \in {"state", "fallback"}
    /\ r_answers' = Append(r_answers, e)
    /\ StateReturns(StateErr(e), r_sent)
    /\ UNCHANGED <<r_op, r_head, r_iter, r_resp>>
    /\ UNCHANGED notResolver

\* The query at the head is NotReady: the history ring is read and walked
\* from the first entry skip_while leaves.
StateNotReady(ring) ==
    /\ r_pc = "state"
    /\ Head(ring).seqno >= r_head.seqno
    /\ r_answers' = Append(r_answers, "NotReady")
    /\ LET rest == SkipWhileOlder(ring, r_head) IN
       IF rest = <<>>
       THEN /\ StateReturns(try_into_data_NotReady, r_sent)
            /\ UNCHANGED r_iter
       ELSE /\ r_iter' = rest
            /\ r_pc' = "fallback"
            /\ r_sent' = Append(r_sent, AccountStateQuery(Head(rest)))
            /\ UNCHANGED <<r_from, r_state, r_ret, r_held>>
    /\ UNCHANGED <<r_op, r_head, r_resp>>
    /\ UNCHANGED notResolver

\* A query of the walk is NotReady: the next entry is tried, or NotReady is
\* returned as an error when none is left.
FallbackNotReady ==
    /\ r_pc = "fallback"
    /\ r_answers' = Append(r_answers, "NotReady")
    /\ LET rest == Tail(r_iter) IN
       IF rest = <<>>
       THEN /\ StateReturns(try_into_data_NotReady, r_sent)
            /\ r_iter' = rest
       ELSE /\ r_iter' = rest
            /\ r_sent' = Append(r_sent, AccountStateQuery(Head(rest)))
            /\ UNCHANGED <<r_pc, r_from, r_state, r_ret, r_held>>
    /\ UNCHANGED <<r_op, r_head, r_resp>>
    /\ UNCHANGED notResolver

\* get_transactions: the GetTransactions query ends with data, NotReady or an
\* error.
GtReply(o) ==
    /\ r_pc = "gt_query"
    /\ r_pc' = "done"
    /\ r_ret' = IF o = "Data" THEN PageOk("transactions") ELSE PageErr(o)
    /\ r_held' = r_held - 1
    /\ UNCHANGED <<r_op, r_from, r_head, r_iter, r_sent, r_resp, r_state>>
    /\ UNCHANGED r_answers
    /\ UNCHANGED notResolver

NextResolver ==
    \/ CallGetContractState
    \/ \E from \in {NoFrom} \cup {SomeFrom(l, h) : l \in 1..MaxRespLt, h \in 1..MaxRespLt} :
          CallGetTransactions(from)
    \/ \E ok \in BOOLEAN : GtAcquire(ok)
    \/ \E ok \in BOOLEAN : Acquire(ok)
    \/ \E r \in {Ok(b) : b \in RBlockIds} \cup {Err(e) : e \in PeerErrors \cup {"NotReady"}} :
          GotHead(r)
    \/ \E resp \in ResolverResponses, wall \in WallClocks : StateData(resp, wall)
    \/ \E e \in PeerErrors : StateError(e)
    \/ \E ring \in Rings : StateNotReady(ring)
    \/ FallbackNotReady
    \/ \E o \in {"Data", "NotReady"} \cup PeerErrors : GtReply(o)

\* Nothing to decode.
DecodeIdle ==
    /\ d_resp = NoResponse
    /\ d_wall = 10
    /\ d_state = NoState
    /\ d_done = FALSE

\* Any response, at any wall-clock reading.
DecodeDraw ==
    /\ d_resp \in Responses
    /\ d_wall \in WallClocks
    /\ d_state = NoState
    /\ d_done = FALSE

\* The response is decoded as get_contract_state does on QueryReply::Data.
Decode ==
    /\ ~d_done
    /\ d_state' = DecodeAccountState(d_resp, d_wall)
    /\ d_done' = TRUE
    /\ UNCHANGED <<d_resp, d_wall>>
    /\ UNCHANGED notDecode

NextDecode == Decode

\* ------------------------------------------------------ get_latest_key_block

\* const MASTERCHAIN_SHARD: u64 = 0x8000000000000000, passed as i64: the same
\* 64 bits, kept here as their hexadecimal digits.
MASTERCHAIN_SHARD == "8000000000000000"

\* ton_node::blockidext::BlockIdExt of a masterchain block.
MasterBlock(n) == [workchain |-> -1, shard |-> MASTERCHAIN_SHARD, seqno |-> n]

NoMasterBlock == MasterBlock(0)

\* The header fields get_latest_key_block reads: key_block(),
\* prev_key_block_seqno() and gen_utime().
BlockInfos == [key_block : BOOLEAN, prev_key_block_seqno : 0..MaxKSeqno,
               gen_utime : 0..MaxUtime]

NoInfo == [key_block |-> FALSE, prev_key_block_seqno |-> 0, gen_utime |-> 0]

\* QueryResult<RawBlock>, a block named by its id.
BlockErr(e) == [ok |-> FALSE, err |-> e, block |-> NoMasterBlock]

BlockOk(b) == [ok |-> TRUE, err |-> "none", block |-> b]

NoBlockReturn == BlockErr("pending")

\* The queries issued to the peer.
GetBlock(b) == [q |-> "GetBlock", id |-> b]

LookupBlock(b) == [q |-> "LookupBlock", id |-> b]

\* The BlockId passed to query_block_by_seqno (lines 275-279).
PrevOfHead(head, info) == MasterBlock(head.seqno - 1)

PrevKeyBlockId(head, info) == MasterBlock(info.prev_key_block_seqno)

\* std::cmp::max(now - gen_utime, 0)
TimeDiff(wall, gen_utime) == IF wall - gen_utime > 0 THEN wall - gen_utime ELSE 0

\* No call is running; time_diff is the AtomicU32 of State::new.
KeyBlockInit ==
    /\ k_pc = "idle"
    /\ k_head = NoMasterBlock
    /\ k_info = NoInfo
    /\ k_resolved = NoMasterBlock
    /\ k_sent = <<>>
    /\ k_ret = NoBlockReturn
    /\ k_time_diff = 0
    /\ time_diff = 0

\* A caller invokes get_latest_key_block.
CallGetLatestKeyBlock ==
    /\ k_pc = "idle"
    /\ k_pc' = "acquire"
    /\ k_time_diff' = time_diff
    /\ UNCHANGED <<k_head, k_info, k_resolved, k_sent, k_ret, time_diff>>
    /\ UNCHANGED notKeyBlock

\* acquire_connection
KAcquire(ok) ==
    /\ k_pc = "acquire"
    /\ IF ok
       THEN k_pc' = "head" /\ UNCHANGED k_ret
       ELSE k_pc' = "done" /\ k_ret' = BlockErr("ConnectionError")
    /\ UNCHANGED <<k_head, k_info, k_resolved, k_sent, time_diff>>
    /\ UNCHANGED k_time_diff
    /\ UNCHANGED notKeyBlock

\* get_last_block returns; query_block issues GetBlock for the head.
KGotHead(r) ==
    /\ k_pc = "head"
    /\ IF r.ok
       THEN /\ k_head' = MasterBlock(r.val.seqno)
            /\ k_pc' = "block"
            /\ k_sent' = Append(k_sent, GetBlock(MasterBlock(r.val.seqno)))
            /\ UNCHANGED k_ret
       ELSE /\ k_pc' = "done"
            /\ k_ret' = BlockErr(r.err)
            /\ UNCHANGED <<k_head, k_sent>>
    /\ UNCHANGED <<k_info, k_resolved, time_diff>>
    /\ UNCHANGED k_time_diff
    /\ UNCHANGED notKeyBlock

\* A GetBlock or LookupBlock query ends without data: NotReady becomes the
\* error NotReady in try_into_data, an error is passed on.
KQueryFails(e) ==
    /\ k_pc \in {"block", "lookup", "prev_block"}
    /\ k_pc' = "done"
    /\ k_ret' = BlockErr(e)
    /\ UNCHANGED <<k_head, k_info, k_resolved, k_sent, time_diff>>
    /\ UNCHANGED k_time_diff
    /\ UNCHANGED notKeyBlock

\* The head block arrives. parsed: Block::construct_from_bytes and
\* info.read_struct succeed. time_diff is stored, then a key block is
\* returned and any other block starts query_block_by_seqno.
KHeadBlock(parsed, info, wall) ==
    /\ k_pc = "block"
    /\ IF ~parsed
       THEN /\ k_pc' = "done"
            /\ k_ret' = BlockErr("InvalidBlock")
            /\ UNCHANGED <<k_info, k_sent, time_diff>>
       ELSE /\ k_info' = info
            /\ time_diff' = TimeDiff(wall, info.gen_utime)
            /\ IF info.key_block
               THEN /\ k_pc' = "done"
                    /\ k_ret' = BlockOk(k_head)
                    /\ UNCHANGED k_sent
               ELSE /\ k_pc' = "lookup"
                    /\ k_sent' = Append(k_sent, LookupBlock(PrevKeyBlockId(k_head, info)))
                    /\ UNCHANGED k_ret
    /\ UNCHANGED <<k_head, k_resolved>>
    /\ UNCHANGED k_time_diff
    /\ UNCHANGED notKeyBlock

\* query_block_by_seqno: LookupBlock resolves to an id; query_block issues
\* GetBlock for it.
KLookedUp(b) ==
    /\ k_pc = "lookup"
    /\ k_resolved' = b
    /\ k_pc' = "prev_block"
    /\ k_sent' = Append(k_sent, GetBlock(b))
    /\ UNCHANGED <<k_head, k_info, k_ret, time_diff>>
    /\ UNCHANGED k_time_diff
    /\ UNCHANGED notKeyBlock

\* The looked-up block arrives and is returned, or fails to parse.
KPrevBlock(parsed) ==
    /\ k_pc = "prev_block"
    /\ k_pc' = "done"
    /\ k_ret' = IF parsed THEN BlockOk(k_resolved) ELSE BlockErr("InvalidBlock")
    /\ UNCHANGED <<k_head, k_info, k_resolved, k_sent, time_diff>>
    /\ UNCHANGED k_time_diff
    /\ UNCHANGED notKeyBlock

\* The updater task (start_masterchain_cache_updater) calls again.
KAgain ==
    /\ k_pc = "done"
    /\ k_pc' = "acquire"
    /\ k_head' = NoMasterBlock
    /\ k_info' = NoInfo
    /\ k_resolved' = NoMasterBlock
    /\ k_sent' = <<>>
    /\ k_ret' = NoBlockReturn
    /\ k_time_diff' = time_diff
    /\ UNCHANGED time_diff
    /\ UNCHANGED notKeyBlock

NextKeyBlock ==
    \/ CallGetLatestKeyBlock
    \/ \E ok \in BOOLEAN : KAcquire(ok)
    \/ \E r \in {Ok([seqno |-> n]) : n \in 1..MaxKSeqno}
                \cup {Err(e) : e \in PeerErrors \cup {"NotReady"}} : KGotHead(r)
    \/ \E e \in PeerErrors \cup {"NotReady"} : KQueryFails(e)
    \/ \E parsed \in BOOLEAN, info \in BlockInfos, wall \in 0..MaxUtime :
          KHeadBlock(parsed, info, wall)
    \/ \E n \in 1..MaxKSeqno : KLookedUp(MasterBlock(n))
    \/ \E parsed \in BOOLEAN : KPrevBlock(parsed)
    \/ KAgain

\* ------------------------------------------- the liveness status (is_ok)

\* config.max_unreliability and config.max_time_diff
max_unreliability == 3

max_time_diff == 1

\* self.unreliability.load(..) <= self.max_unreliability
\*     && self.time_diff.load(..) <= self.max_time_diff
is_ok_by_counter_alone(u, td) == u <= max_unreliability

is_ok(u, td) == u <= max_unreliability /\ td <= max_time_diff

\* http::StatusCode::OK and SERVICE_UNAVAILABLE; NoStatus before any reply.
StatusOk == "200 OK"

StatusUnavailable == "503 Service Unavailable"

NoStatus == "none"

\* No health check has been answered.
HealthInit == h_status = NoStatus

\* The counter as the pool's callbacks may have left it when the walker and
\* the health check are looked at on their own: any value it can take.
HealthPoolInit ==
    /\ unreliability \in 0..MaxUnreliability
    /\ pslot = [s \in Slots |-> "empty"]
    /\ palive = [s \in Slots |-> FALSE]
    /\ pbroken = [s \in Slots |-> FALSE]
    /\ ppc = [t \in PTasks |-> "idle"]
    /\ pheld = [t \in PTasks |-> 0]
    /\ pcalls = [t \in PTasks |-> 0]
    /\ pret = [t \in PTasks |-> "none"]
    /\ pev = "none"
    /\ u_before = 0
    /\ n_ping_failed = 0
    /\ n_connect_ok = 0

\* healthcheck: GET / is answered with an empty body and the status is_ok
\* selects.
Healthcheck ==
    /\ h_status' = IF is_ok(unreliability, time_diff) THEN StatusOk ELSE StatusUnavailable
    /\ UNCHANGED notHealth

\* The health check polled while get_latest_key_block is called over and over.
NextHealth ==
    \/ Healthcheck
    \/ CallGetLatestKeyBlock
    \/ \E ok \in BOOLEAN : KAcquire(ok)
    \/ \E r \in {Ok([seqno |-> n]) : n \in 1..MaxKSeqno}
                \cup {Err(e) : e \in PeerErrors \cup {"NotReady"}} : KGotHead(r)
    \/ \E e \in PeerErrors \cup {"NotReady"} : KQueryFails(e)
    \/ \E parsed \in BOOLEAN, info \in BlockInfos, wall \in 0..MaxUtime :
          KHeadBlock(parsed, info, wall)
    \/ \E n \in 1..MaxKSeqno : KLookedUp(MasterBlock(n))
    \/ \E parsed \in BOOLEAN : KPrevBlock(parsed)
    \/ KAgain

\* ------------------------------------------ api/state.rs: registry, notifier

Addresses == {"A", "B"}

ConnectionIds == 0..(MaxConnections - 1)

\* An address the map has no entry for; an entry is the set of its ids.
NoEntry == {-1}

NoAddress == "none"

\* hash.remove(&id); if hash.is_empty() the address entry is removed.
RemoveKeepingEntry(subs, address, conn) ==
    IF subs[address] # NoEntry
    THEN [subs EXCEPT ![address] = subs[address] \ {conn}]
    ELSE subs

RemoveWholeEntry(subs, address, conn) == [subs EXCEPT ![address] = NoEntry]

RemoveSubscriber(subs, address, conn) ==
    IF subs[address] # NoEntry
    THEN [subs EXCEPT ![address] = IF subs[address] \ {conn} = {} THEN NoEntry
                                   ELSE subs[address] \ {conn}]
    ELSE subs

\* entry(address).or_insert_with(HashMap::new).insert(connection_id, tx)
InsertReplacingEntry(subs, address, conn) == [subs EXCEPT ![address] = {conn}]

InsertSubscriber(subs, address, conn) ==
    [subs EXCEPT ![address] = IF subs[address] = NoEntry THEN {conn}
                              ELSE subs[address] \cup {conn}]

\* WsRequestMessage::SubscribeForNewBlock => {}
SubscribedToEveryAddress(subs, conn) ==
    [a \in Addresses |-> IF subs[a] = NoEntry THEN {conn} ELSE subs[a] \cup {conn}]

OnSubscribeForNewBlock(subs, conn) == subs

\* The callbacks of an address that are sent to: those of the snapshot, or
\* none when the status query failed (`continue`).
CallbacksDespiteFailure(callbacks, ok) == callbacks

CallbacksToSend(callbacks, ok) == IF ok THEN callbacks ELSE {}

\* What the last step did: "connect", "subscribe", "new_block" (a frame
\* read by add_connection), "get_failed", "query_ok", "query_failed", "sent",
\* "send_failed", "pruned" (transaction_monitoring); "none" for any other.
NEvent(kind, conn, address) == [kind |-> kind, conn |-> conn, address |-> address]

NoNEvent == NEvent("none", -1, NoAddress)

\* The await point after an address's callbacks or the addresses run out.
AfterSendEndingTick(callbacks, todo) == IF callbacks # {} THEN "send" ELSE "sleep"

AfterSend(callbacks, todo) ==
    IF callbacks # {} THEN "send" ELSE IF todo # {} THEN "address" ELSE "sleep"

\* The guard on address_subscriptions a task holds at the await point that
\* follows a locked section: the read guard of the snapshot is a temporary of
\* the statement that clones the map, the write guards of the insertion and
\* of the pruning are dropped where their blocks end.
SubscriptionsGuardAfter(section) == NoGuard

\* State::new: an empty registry; transaction_monitoring is asleep.
NotifierInit ==
    /\ CONNECTION_ID = 0
    /\ address_subscriptions = [a \in Addresses |-> NoEntry]
    /\ reading = {}
    /\ sink_open = {}
    /\ n_pc = "sleep"
    /\ addresses_callbacks = [a \in Addresses |-> NoEntry]
    /\ n_todo = {}
    /\ n_address = NoAddress
    /\ n_callbacks = {}
    /\ n_id = -1
    /\ n_pruned = {}
    /\ n_ev = NoNEvent
    /\ n_got = FALSE
    /\ n_failed = {}
    /\ n_sent = {}
    /\ n_guard = NoGuard
    /\ ws_guard = [c \in ConnectionIds |-> NoGuard]

\* add_connection: the channel is made, the id taken from CONNECTION_ID and
\* the forwarding task spawned; the loop starts to read requests.
AddConnection ==
    /\ CONNECTION_ID < MaxConnections
    /\ CONNECTION_ID' = CONNECTION_ID + 1
    /\ reading' = reading \cup {CONNECTION_ID}
    /\ sink_open' = sink_open \cup {CONNECTION_ID}
    /\ UNCHANGED <<address_subscriptions, n_pc, addresses_callbacks, n_todo, n_address,
                   n_callbacks, n_id, n_pruned>>
    /\ UNCHANGED notNotifier
    /\ n_ev' = NEvent("connect", CONNECTION_ID, NoAddress)
    /\ UNCHANGED <<n_got, n_failed, n_sent>>
    /\ UNCHANGED <<n_guard, ws_guard>>

\* add_connection: a SubscribeAccount request is read and the sender inserted
\* under the write lock.
SubscribeAccount(conn, address) ==
    /\ conn \in reading
    /\ address_subscriptions' = InsertSubscriber(address_subscriptions, address, conn)
    /\ n_pruned' = n_pruned \ {<<address, conn>>}
    /\ UNCHANGED <<CONNECTION_ID, reading, sink_open, n_pc, addresses_callbacks, n_todo,
                   n_address, n_callbacks, n_id>>
    /\ UNCHANGED notNotifier
    /\ n_ev' = NEvent("subscribe", conn, address)
    /\ UNCHANGED <<n_got, n_failed, n_sent>>
    /\ ws_guard' = [ws_guard EXCEPT ![conn] = SubscriptionsGuardAfter("insert")]
    /\ UNCHANGED n_guard

\* handle_websocket (ton/mod.rs), the same loop as add_connection: a
\* SubscribeForNewBlock request is read; its arm is empty and the loop reads on.
SubscribeForNewBlock(conn) ==
    /\ conn \in reading
    /\ address_subscriptions' = OnSubscribeForNewBlock(address_subscriptions, conn)
    /\ n_ev' = NEvent("new_block", conn, NoAddress)
    /\ UNCHANGED <<CONNECTION_ID, reading, sink_open, n_pc, addresses_callbacks, n_todo,
                   n_address, n_callbacks, n_id, n_pruned, n_got, n_failed, n_sent>>
    /\ UNCHANGED notNotifier
    /\ UNCHANGED <<n_guard, ws_guard>>

\* The forwarding task of a connection ends and drops rx: sends fail from now.
SinkCloses(conn) ==
    /\ conn \in sink_open
    /\ sink_open' = sink_open \ {conn}
    /\ UNCHANGED <<CONNECTION_ID, address_subscriptions, reading, n_pc, addresses_callbacks,
                   n_todo, n_address, n_callbacks, n_id, n_pruned>>
    /\ UNCHANGED notNotifier
    /\ n_ev' = NoNEvent
    /\ UNCHANGED <<n_got, n_failed, n_sent>>
    /\ UNCHANGED <<n_guard, ws_guard>>

\* add_connection: the websocket stream ends and the loop returns.
ReaderEnds(conn) ==
    /\ conn \in reading
    /\ reading' = reading \ {conn}
    /\ UNCHANGED <<CONNECTION_ID, address_subscriptions, sink_open, n_pc, addresses_callbacks,
                   n_todo, n_address, n_callbacks, n_id, n_pruned>>
    /\ UNCHANGED notNotifier
    /\ n_ev' = NoNEvent
    /\ UNCHANGED <<n_got, n_failed, n_sent>>
    /\ UNCHANGED <<n_guard, ws_guard>>

\* transaction_monitoring: the sleep ends and the registry is cloned under the
\* read lock.
Snapshot ==
    /\ n_pc = "sleep"
    /\ addresses_callbacks' = address_subscriptions
    /\ n_pc' = "get"
    /\ UNCHANGED <<CONNECTION_ID, address_subscriptions, reading, sink_open, n_todo,
                   n_address, n_callbacks, n_id, n_pruned>>
    /\ UNCHANGED notNotifier
    /\ n_ev' = NoNEvent
    /\ n_got' = FALSE
    /\ n_failed' = {}
    /\ n_sent' = {}
    /\ n_guard' = SubscriptionsGuardAfter("snapshot")
    /\ UNCHANGED ws_guard

\* transaction_monitoring: pool.get; an error ends the tick.
PoolGet(ok) ==
    /\ n_pc = "get"
    /\ LET todo == {a \in Addresses : addresses_callbacks[a] # NoEntry} IN
       IF ok /\ todo # {}
       THEN n_pc' = "address" /\ n_todo' = todo
       ELSE n_pc' = "sleep" /\ n_todo' = {}
    /\ UNCHANGED <<CONNECTION_ID, address_subscriptions, reading, sink_open,
                   addresses_callbacks, n_address, n_callbacks, n_id, n_pruned>>
    /\ UNCHANGED notNotifier
    /\ n_ev' = IF ok THEN NoNEvent ELSE NEvent("get_failed", -1, NoAddress)
    /\ n_got' = ok
    /\ UNCHANGED <<n_failed, n_sent>>
    /\ UNCHANGED <<n_guard, ws_guard>>

\* transaction_monitoring: the next address of the snapshot, in the map's
\* order, and its status query; an error skips the address.
VisitAddress(address, ok) ==
    /\ n_pc = "address"
    /\ address \in n_todo
    /\ n_todo' = n_todo \ {address}
    /\ n_address' = address
    /\ n_callbacks' = CallbacksToSend(addresses_callbacks[address], ok)
    /\ n_pc' = AfterSend(n_callbacks', n_todo')
    /\ UNCHANGED <<CONNECTION_ID, address_subscriptions, reading, sink_open,
                   addresses_callbacks, n_id, n_pruned>>
    /\ UNCHANGED notNotifier
    /\ n_ev' = NEvent(IF ok THEN "query_ok" ELSE "query_failed", -1, address)
    /\ n_failed' = IF ok THEN n_failed ELSE n_failed \cup {address}
    /\ UNCHANGED <<n_got, n_sent>>
    /\ UNCHANGED <<n_guard, ws_guard>>

\* transaction_monitoring: callback.send to the next subscriber; it fails when
\* the receiving end is gone.
Send(conn) ==
    /\ n_pc = "send"
    /\ conn \in n_callbacks
    /\ n_callbacks' = n_callbacks \ {conn}
    /\ IF conn \in sink_open
       THEN n_pc' = AfterSend(n_callbacks', n_todo) /\ UNCHANGED n_id
       ELSE n_pc' = "prune" /\ n_id' = conn
    /\ UNCHANGED <<CONNECTION_ID, address_subscriptions, reading, sink_open,
                   addresses_callbacks, n_todo, n_address, n_pruned>>
    /\ UNCHANGED notNotifier
    /\ n_ev' = NEvent(IF conn \in sink_open THEN "sent" ELSE "send_failed", conn, n_address)
    /\ n_sent' = n_sent \cup {<<n_address, conn>>}
    /\ UNCHANGED <<n_got, n_failed>>
    /\ UNCHANGED <<n_guard, ws_guard>>

\* transaction_monitoring: after a failed send the id is removed under the
\* write lock, and the address with it when its map is left empty.
Prune ==
    /\ n_pc = "prune"
    /\ address_subscriptions' = RemoveSubscriber(address_subscriptions, n_address, n_id)
    /\ n_pruned' = n_pruned \cup {<<n_address, n_id>>}
    /\ n_pc' = AfterSend(n_callbacks, n_todo)
    /\ UNCHANGED <<CONNECTION_ID, reading, sink_open, addresses_callbacks, n_todo,
                   n_address, n_callbacks, n_id>>
    /\ UNCHANGED notNotifier
    /\ n_ev' = NEvent("pruned", n_id, n_address)
    /\ UNCHANGED <<n_got, n_failed, n_sent>>
    /\ n_guard' = SubscriptionsGuardAfter("prune")
    /\ UNCHANGED ws_guard

\* The steps of transaction_monitoring.
NotifierTask ==
    \/ Snapshot
    \/ \E ok \in BOOLEAN : PoolGet(ok)
    \/ \E address \in Addresses, ok \in BOOLEAN : VisitAddress(address, ok)
    \/ \E conn \in ConnectionIds : Send(conn)
    \/ Prune

NextNotifier ==
    \/ AddConnection
    \/ \E conn \in ConnectionIds, address \in Addresses : SubscribeAccount(conn, address)
    \/ \E conn \in ConnectionIds : SubscribeForNewBlock(conn)
    \/ \E conn \in ConnectionIds : SinkCloses(conn)
    \/ \E conn \in ConnectionIds : ReaderEnds(conn)
    \/ Snapshot
    \/ \E ok \in BOOLEAN : PoolGet(ok)
    \/ \E address \in Addresses, ok \in BOOLEAN : VisitAddress(address, ok)
    \/ \E conn \in ConnectionIds : Send(conn)
    \/ Prune

\* The registry and the notifier without the steps that leave the registry,
\* the sinks and the notifier as they are: a connection whose loop has ended
\* is one that sends no further request.
NextNotifierLive ==
    \/ AddConnection
    \/ \E conn \in ConnectionIds, address \in Addresses : SubscribeAccount(conn, address)
    \/ \E conn \in ConnectionIds : SinkCloses(conn)
    \/ Snapshot
    \/ \E ok \in BOOLEAN : PoolGet(ok)
    \/ \E address \in Addresses, ok \in BOOLEAN : VisitAddress(address, ok)
    \/ \E conn \in ConnectionIds : Send(conn)
    \/ Prune

\* ------------------------------------------------- connection.rs: query

\* const MAX_RETIRES: usize = 3
MAX_RETIRES == 3

\* const RETRY_INTERVAL: u64 = 100, in milliseconds
RETRY_INTERVAL == 100

\* const ERR_NOT_READY: i32 = 651
ERR_NOT_READY == 651

\* The codes and messages of the lite_server::Error replies of the peer.
PeerCodes == {ERR_NOT_READY - 1, ERR_NOT_READY, ERR_NOT_READY + 1}

PeerMessages == {"m1", "m2"}

\* What a round-trip ends with: the transport fails, or the response
\* downcasts to the expected reply, to a lite_server::Error, or to neither.
TransportFailure == [kind |-> "transport", code |-> 0, message |-> "none"]

ExpectedReply == [kind |-> "reply", code |-> 0, message |-> "none"]

PeerError(code, message) == [kind |-> "error", code |-> code, message |-> message]

OtherReply == [kind |-> "other", code |-> 0, message |-> "none"]

\* QueryResult<QueryReply<T::Reply>>
QueryData == [ok |-> TRUE, reply |-> "Data", err |-> "none", code |-> 0, message |-> "none"]

QueryNotReady == [ok |-> TRUE, reply |-> "NotReady", err |-> "none", code |-> 0,
                  message |-> "none"]

QueryErr(e) == [ok |-> FALSE, reply |-> "none", err |-> e, code |-> 0, message |-> "none"]

LiteServer(error) == [ok |-> FALSE, reply |-> "none", err |-> "LiteServer",
                      code |-> error.code, message |-> error.message]

NoQueryReturn == QueryErr("pending")

\* The loop goes round again, or query returns ret.
Retry == [next |-> "retry", ret |-> NoQueryReturn]

Return(ret) == [next |-> "return", ret |-> ret]

\* if retries < MAX_RETIRES
MayRetryOnceMore(retries) == retries <= MAX_RETIRES

MayRetry(retries) == retries < MAX_RETIRES

\* error.code() == &ERR_NOT_READY
IsNotReadyOrAbove(code) == code >= ERR_NOT_READY

IsNotReady(code) == code = ERR_NOT_READY

\* connection.query(&query).await.map_err(|_| QueryError::ConnectionError)?
OnTransportFailureRetrying(retries) ==
    IF retries < MAX_RETIRES THEN Retry ELSE Return(QueryErr("ConnectionError"))

OnTransportFailure(retries) == Return(QueryErr("ConnectionError"))

\* match response.downcast::<T::Reply>() and its arms
OnResponse(reply, retries) ==
    IF reply.kind = "reply" THEN Return(QueryData)
    ELSE IF reply.kind = "error"
         THEN IF IsNotReady(reply.code)
              THEN IF MayRetry(retries) THEN Retry ELSE Return(QueryNotReady)
              ELSE Return(LiteServer(reply))
         ELSE Return(QueryErr("Unknown"))

\* No call of query is running.
QueryInit ==
    /\ q_pc = "idle"
    /\ q_retries = 0
    /\ q_sent = 0
    /\ q_elapsed = 0
    /\ q_replies = <<>>
    /\ q_ret = NoQueryReturn

\* query is called: the request is serialized and the first round-trip
\* started, or FailedToSerialize returned.
QueryStart(serialized) ==
    /\ q_pc = "idle"
    /\ IF serialized
       THEN q_pc' = "roundtrip" /\ q_sent' = 1 /\ UNCHANGED q_ret
       ELSE q_pc' = "done" /\ q_ret' = QueryErr("FailedToSerialize") /\ UNCHANGED q_sent
    /\ UNCHANGED <<q_retries, q_elapsed, q_replies>>

QueryCalled(serialized) ==
    /\ QueryStart(serialized)
    /\ UNCHANGED notQuery

\* The round-trip has ended with reply and the loop body has decided on d.
Decided(reply, d) ==
    /\ q_replies' = Append(q_replies, reply)
    /\ IF d.next = "retry"
       THEN q_pc' = "sleep" /\ UNCHANGED q_ret
       ELSE q_pc' = "done" /\ q_ret' = d.ret
    /\ UNCHANGED <<q_retries, q_sent, q_elapsed>>
    /\ UNCHANGED notQuery

\* The transport fails on the round-trip.
TransportFails ==
    /\ q_pc = "roundtrip"
    /\ Decided(TransportFailure, OnTransportFailure(q_retries))

\* The peer's response arrives.
ResponseArrives(reply) ==
    /\ q_pc = "roundtrip"
    /\ Decided(reply, OnResponse(reply, q_retries))

\* tokio::time::sleep(RETRY_INTERVAL) ends, retries is incremented and the
\* next round-trip starts.
RetryAfterSleep ==
    /\ q_pc = "sleep"
    /\ q_elapsed' = q_elapsed + RETRY_INTERVAL
    /\ q_retries' = q_retries + 1
    /\ q_sent' = q_sent + 1
    /\ q_pc' = "roundtrip"
    /\ UNCHANGED <<q_replies, q_ret>>
    /\ UNCHANGED notQuery

NextQuery ==
    \/ \E serialized \in BOOLEAN : QueryCalled(serialized)
    \/ TransportFails
    \/ \E reply \in {ExpectedReply, OtherReply}
                    \cup {PeerError(c, m) : c \in PeerCodes, m \in PeerMessages} :
          ResponseArrives(reply)
    \/ RetryAfterSleep

\* ------------------------------------------- send_message, errors.rs, wrap

\* QueryResult<()>; a LiteServer error carries the peer's code and message.
SendOk == [ok |-> TRUE, err |-> "none", code |-> 0, message |-> "none"]

SendErr(e) == [ok |-> FALSE, err |-> e, code |-> 0, message |-> "none"]

NoSendReturn == SendErr("pending")

\* QueryError::code: one arm for each variant of the enum.
QueryError_code ==
    [ConnectionError |-> 1, FailedToSerialize |-> 2, LiteServer |-> 10,
     InvalidAccountStateProof |-> 20, InvalidAccountState |-> 21, InvalidBlock |-> 30,
     Unknown |-> 666]

\* The response of the dispatch layer: res.success(result), or
\* res.error(Error::custom(error.code(), ..)); NoCode where code() has no arm
\* for the error.
Success == [kind |-> "success", code |-> 0]

ErrorResponse(c) == [kind |-> "error", code |-> c]

NoCode == [kind |-> "no code", code |-> 0]

NoRelay == [kind |-> "pending", code |-> 0]

wrap(result) ==
    IF result.ok THEN Success
    ELSE IF result.err \in DOMAIN QueryError_code
         THEN ErrorResponse(QueryError_code[result.err])
         ELSE NoCode

\* query(..).await?.try_into_data()?; Ok(())
SendResultIgnoringReply(q) ==
    IF q.ok THEN SendOk
    ELSE [ok |-> FALSE, err |-> q.err, code |-> q.code, message |-> q.message]

SendResult(q) ==
    IF q.ok
    THEN IF q.reply = "Data" THEN SendOk ELSE SendErr("NotReady")
    ELSE [ok |-> FALSE, err |-> q.err, code |-> q.code, message |-> q.message]

\* No call of send_message is running.
SendInit ==
    /\ s_pc = "idle"
    /\ s_ret = NoSendReturn
    /\ s_relayed = NoRelay

\* The dispatch layer invokes send_message.
SendMessageCalled ==
    /\ s_pc = "idle"
    /\ s_pc' = "acquire"
    /\ UNCHANGED <<s_ret, s_relayed>>
    /\ UNCHANGED queryVars
    /\ UNCHANGED notSendNorQuery

\* acquire_connection
SendAcquire(ok) ==
    /\ s_pc = "acquire"
    /\ IF ok
       THEN s_pc' = "serialize" /\ UNCHANGED s_ret
       ELSE s_pc' = "returned" /\ s_ret' = SendErr("ConnectionError")
    /\ UNCHANGED s_relayed
    /\ UNCHANGED queryVars
    /\ UNCHANGED notSendNorQuery

\* write_to_new_cell and serialize_toc; then query is called, which
\* serializes the request and starts the first round-trip.
SendSerialize(cells, toc, serialized) ==
    /\ s_pc = "serialize"
    /\ IF cells /\ toc
       THEN /\ s_pc' = "query"
            /\ QueryStart(serialized)
            /\ UNCHANGED s_ret
       ELSE /\ s_pc' = "returned"
            /\ s_ret' = SendErr("FailedToSerialize")
            /\ UNCHANGED queryVars
    /\ UNCHANGED s_relayed
    /\ UNCHANGED notSendNorQuery

\* query has returned: `?`, try_into_data and `?` again.
SendQueryReturns ==
    /\ s_pc = "query"
    /\ q_pc = "done"
    /\ s_ret' = SendResult(q_ret)
    /\ s_pc' = "returned"
    /\ UNCHANGED s_relayed
    /\ UNCHANGED queryVars
    /\ UNCHANGED notSendNorQuery

\* wrap(res, state.send_message(req.message).await)
Wrap ==
    /\ s_pc = "returned"
    /\ s_relayed' = wrap(s_ret)
    /\ s_pc' = "done"
    /\ UNCHANGED s_ret
    /\ UNCHANGED queryVars
    /\ UNCHANGED notSendNorQuery

NextSend ==
    \/ SendMessageCalled
    \/ \E ok \in BOOLEAN : SendAcquire(ok)
    \/ \E cells \in BOOLEAN, toc \in BOOLEAN, serialized \in BOOLEAN :
          SendSerialize(cells, toc, serialized)
    \/ TransportFails
    \/ \E reply \in {ExpectedReply, OtherReply}
                    \cup {PeerError(c, m) : c \in PeerCodes, m \in PeerMessages} :
          ResponseArrives(reply)
    \/ RetryAfterSleep
    \/ SendQueryReturns
    \/ Wrap

\* ------------------------------------- the locked sections, task by task

\* One caller of get_last_block, one websocket connection and the notifier,
\* each followed from one await point to the next with the guards it holds.
LockCaller == "t1"

LockResults == {Ok([seqno |-> 1]), Err("ConnectionError")}

FirstConnection == CONNECTION_ID = 0 /\ AddConnection

NextLocks ==
    \/ Tick
    \/ ReadCache(LockCaller)
    \/ \E r \in LockResults : FinishFetch(LockCaller, r)
    \/ FirstConnection
    \/ \E address \in Addresses : SubscribeAccount(0, address)
    \/ SubscribeForNewBlock(0)
    \/ SinkCloses(0)
    \/ Snapshot
    \/ \E ok \in BOOLEAN : PoolGet(ok)
    \/ \E address \in Addresses, ok \in BOOLEAN : VisitAddress(address, ok)
    \/ Send(0)
    \/ Prune

\* ------------------------------------------------------------ specifications

\* Every component as constructed.
Init ==
    /\ CacheInit
    /\ PoolInit
    /\ TxIdle
    /\ ResolverInit
    /\ KeyBlockInit
    /\ NotifierInit
    /\ QueryInit
    /\ DecodeIdle
    /\ HealthInit
    /\ SendInit

SpecCache == Init /\ [][NextCache]_vars

SpecPool == Init /\ [][NextPool]_vars

InitScenario ==
    /\ CacheInit
    /\ ScenarioInit
    /\ TxIdle
    /\ ResolverInit
    /\ KeyBlockInit
    /\ NotifierInit
    /\ QueryInit
    /\ DecodeIdle
    /\ HealthInit
    /\ SendInit

\* The runtime keeps scheduling a task that can take a step.
SpecPoolScenario == InitScenario /\ [][NextScenario]_vars /\ WF_vars(NextScenario)

InitTx ==
    /\ CacheInit
    /\ PoolInit
    /\ TxDraw
    /\ ResolverInit
    /\ KeyBlockInit
    /\ NotifierInit
    /\ QueryInit
    /\ DecodeIdle
    /\ HealthInit
    /\ SendInit

SpecTx == InitTx /\ [][NextTx]_vars

SpecResolver == Init /\ [][NextResolver]_vars

SpecKeyBlock == Init /\ [][NextKeyBlock]_vars

SpecNotifier == Init /\ [][NextNotifier]_vars

SpecQuery == Init /\ [][NextQuery]_vars

InitDecode ==
    /\ CacheInit
    /\ PoolInit
    /\ TxIdle
    /\ ResolverInit
    /\ KeyBlockInit
    /\ NotifierInit
    /\ QueryInit
    /\ DecodeDraw
    /\ HealthInit
    /\ SendInit

SpecDecode == InitDecode /\ [][NextDecode]_vars

InitHealth ==
    /\ CacheInit
    /\ HealthPoolInit
    /\ TxIdle
    /\ ResolverInit
    /\ KeyBlockInit
    /\ NotifierInit
    /\ QueryInit
    /\ DecodeIdle
    /\ HealthInit
    /\ SendInit

SpecHealth == InitHealth /\ [][NextHealth]_vars

SpecSend == Init /\ [][NextSend]_vars

SpecLocks == Init /\ [][NextLocks]_vars

\* Every query that is awaited ends, unless its caller is dropped first, and
\* every caller that is idle calls again.
SpecCacheDrop ==
    /\ Init
    /\ [][NextCacheDrop]_vars
    /\ \A t \in Callers : WF_vars(\E r \in DropResults : FinishFetch(t, r))
    /\ \A t \in Callers : WF_vars(ReadCache(t))

\* The notifier keeps ticking, and pool acquisition and the status query of
\* every address succeed again and again.
SpecNotifierLive ==
    /\ Init
    /\ [][NextNotifierLive]_vars
    /\ WF_vars(NotifierTask)
    /\ SF_vars(PoolGet(TRUE))
    /\ \A a \in Addresses : SF_vars(VisitAddress(a, TRUE))

\* -------------------------------------------------------------------- claims

\* C1: in every reachable state of the chain-head cache the history ring holds
\* at most MAX_ENQUEUED_BLOCKS (5) block ids and their sequence numbers are
\* strictly decreasing from front to back.
RingBoundedAndSorted ==
    /\ Len(blocks) <= MAX_ENQUEUED_BLOCKS
    /\ \A i, j \in 1..Len(blocks) : i < j => blocks[i].seqno > blocks[j].seqno

\* A full ring after an eviction, with a query still in flight.
RingFullAfterEviction ==
    /\ evicted
    /\ Len(blocks) = MAX_ENQUEUED_BLOCKS
    /\ \E t \in Callers : cpc[t] = "query"

\* C2 as amended: a get_last_block call whose read of the cache finds a
\* successful result whose fetched_at is less than the threshold before the
\* call's own clock reading issues no remote query and returns that cached
\* BlockId.
FreshCachedIdReturned ==
    (ev.kind \in {"cached", "query"} /\ ev.seen.some /\ ev.seen.result.ok
     /\ ev.at - ev.seen.last < Threshold)
    => (ev.kind = "cached" /\ ev.ret = ev.seen.result)

\* A cached id was returned while the other caller's query was in flight.
FreshCachedIdWasReturned ==
    /\ ev.kind = "cached"
    /\ ev.seen.result.ok
    /\ ev.at - ev.seen.last < Threshold
    /\ ev.ret = ev.seen.result
    /\ \E t \in Callers : cpc[t] = "query"

\* C2 as stated: every call made less than the threshold after a prior
\* successful fetch issues no remote query and returns the id of that fetch.
PriorFetchIdReturned ==
    (ev.kind \in {"cached", "query"} /\ ev.prior.some
     /\ ev.at - ev.prior.last < Threshold)
    => (ev.kind = "cached" /\ ev.ret = ev.prior.result)

\* C3: a failed connection establishment adds exactly 5 to the reliability
\* counter, a failed ping exactly 1, a successful ping sets it to exactly 0;
\* no other step changes it, it never decreases but by that reset and is never
\* negative.
ReliabilityCounterSteps ==
    /\ pev = "connect_failed" => unreliability = u_before + 5
    /\ pev = "ping_failed" => unreliability = u_before + 1
    /\ pev = "ping_ok" => unreliability = 0
    /\ pev \in {"none", "other", "connect_ok"} => unreliability = u_before
    /\ unreliability >= u_before \/ (pev = "ping_ok" /\ unreliability = 0)
    /\ unreliability >= 0

\* A successful ping resets a counter that a failed connect and a failed ping
\* had brought to 6.
CounterResetFromSix ==
    /\ pev = "ping_ok"
    /\ u_before = 6
    /\ unreliability = 0

Completed(t) == pcalls[t] >= 1 /\ (ppc[t] = "idle" \/ pcalls[t] >= 2)

TransactionIdByLtOnly ==
    tx_done =>
        /\ tx_eq <=> (tx_cmp = "Equal")
        /\ tx_a.lt = tx_b.lt => (tx_eq /\ tx_cmp = "Equal")
        /\ tx_a.lt < tx_b.lt => (~tx_eq /\ tx_cmp = "Less")
        /\ tx_a.lt > tx_b.lt => (~tx_eq /\ tx_cmp = "Greater")

\* Two ids of equal lt and different hashes have compared equal.
EqualLtDifferentHash ==
    /\ tx_done
    /\ tx_a.lt = tx_b.lt
    /\ tx_a.hash # tx_b.hash
    /\ tx_eq
    /\ tx_cmp = "Equal"

\* C5 as amended: when the proof blob of an account-state response
\* deserializes to a number of root cells other than two, get_contract_state
\* returns InvalidAccountStateProof if the account record decodes to a present
\* account, and returns NotExists, the proof unexamined, if the record is
\* absent.
ProofRootsCheckedForPresentAccount ==
    (r_resp.proof.cells /\ r_resp.proof.roots # 2) =>
        /\ r_resp.state.variant = "Account" =>
              r_state = StateErr("InvalidAccountStateProof")
        /\ r_resp.state.variant = "AccountNone" => r_state = NotExists

\* A present account's response with three proof roots, a well-formed first
\* root and an index entry has been answered with InvalidAccountStateProof.
ThreeRootsRejected ==
    /\ r_pc = "done"
    /\ r_op = "get_contract_state"
    /\ r_resp.state.variant = "Account"
    /\ r_resp.proof.roots = 3
    /\ r_resp.proof.entry = "some"
    /\ r_state = StateErr("InvalidAccountStateProof")
    /\ ~r_ret.ok

\* C5 as stated: a proof blob of other than two root cells gives
\* InvalidAccountStateProof for every content of the account record, never a
\* success value.
WrongRootCountAlwaysProofError ==
    (r_resp.proof.cells /\ r_resp.proof.roots # 2) =>
        r_state = StateErr("InvalidAccountStateProof")

\* C6: when get_contract_state returns Exists, the lt and hash of its
\* last_transaction_id are those of the shard-state account index entry, not
\* the last_trans_lt of the raw account record.
LastTransactionIdFromShardIndex ==
    (r_state.ok /\ r_state.kind = "Exists") =>
        /\ r_state.lt = r_resp.proof.lt
        /\ r_state.hash = r_resp.proof.hash
        /\ r_resp.proof.entry = "some"

\* Exists has been returned for a response whose account record carries
\* another last_trans_lt than the index entry.
ExistsWithDifferingRecordLt ==
    /\ r_pc = "done"
    /\ r_op = "get_contract_state"
    /\ r_ret.ok
    /\ r_state.kind = "Exists"
    /\ r_resp.state.last_trans_lt # r_resp.proof.lt
    /\ r_state.lt = r_resp.proof.lt

\* C10: get_transactions called without a starting id whose resolved state is
\* NotExists returns an empty page as a success and has issued no
\* GetTransactions query.
EmptyPageForMissingAccount ==
    (r_op = "get_transactions" /\ ~r_from.some /\ r_state = NotExists) =>
        /\ r_pc = "done"
        /\ r_ret = PageOk("empty")
        /\ \A i \in DOMAIN r_sent : r_sent[i].q # "GetTransactions"

\* get_transactions without a starting id has returned the empty page after
\* the account-state query answered with an absent account.
EmptyPageReturned ==
    /\ r_op = "get_transactions"
    /\ r_pc = "done"
    /\ ~r_from.some
    /\ r_resp.state.variant = "AccountNone"
    /\ r_state = NotExists
    /\ r_ret = PageOk("empty")
    /\ Len(r_sent) = 1

\* C8: get_latest_key_block issues at most one LookupBlock query; a head
\* block that is a key block is returned with nothing issued after its
\* GetBlock; otherwise the one LookupBlock is for the header's
\* prev_key_block_seqno on the masterchain shard of workchain -1, and the
\* block returned is the one that lookup resolved to.
KeyBlockWalkOneHop ==
    LET lookups == {i \in DOMAIN k_sent : k_sent[i].q = "LookupBlock"}
        wanted == [workchain |-> -1, shard |-> MASTERCHAIN_SHARD,
                   seqno |-> k_info.prev_key_block_seqno]
    IN
    /\ Cardinality(lookups) <= 1
    /\ \A i \in lookups : ~k_info.key_block /\ k_sent[i] = LookupBlock(wanted)
    /\ (k_ret.ok /\ k_info.key_block) =>
          /\ k_ret.block = k_head
          /\ k_sent = <<GetBlock(k_head)>>
    /\ (k_ret.ok /\ ~k_info.key_block) =>
          /\ k_ret.block = k_resolved
          /\ k_sent = <<GetBlock(k_head), LookupBlock(wanted), GetBlock(k_resolved)>>

\* A head that is not a key block, and whose previous key block is not the
\* block before it, has been walked back one hop and the looked-up block
\* returned.
WalkedBackOneHop ==
    /\ k_pc = "done"
    /\ k_ret.ok
    /\ ~k_info.key_block
    /\ k_info.prev_key_block_seqno # k_head.seqno - 1
    /\ k_resolved.seqno = k_info.prev_key_block_seqno
    /\ k_ret.block = k_resolved

\* C9: a subscriber id pruned after a failed send is absent from its
\* address's map, an address whose map was left empty has no entry, and the
\* notifier's next snapshot of the registry holds neither, until that
\* connection subscribes to the address again.
PrunedSubscriberGone ==
    /\ \A p \in n_pruned : p[2] \notin address_subscriptions[p[1]]
    /\ \A a \in Addresses : address_subscriptions[a] # {}
    /\ n_pc = "get" =>
          /\ \A p \in n_pruned : p[2] \notin addresses_callbacks[p[1]]
          /\ \A a \in Addresses : addresses_callbacks[a] # {}

\* The registry has been read after a tick that pruned a closed subscriber
\* from two addresses: one lost its entry, the other kept its open subscriber.
PrunedThenRead ==
    /\ n_pc = "get"
    /\ \E p \in n_pruned : addresses_callbacks[p[1]] = NoEntry
    /\ \E p \in n_pruned : /\ addresses_callbacks[p[1]] # NoEntry
                           /\ addresses_callbacks[p[1]] \cap sink_open # {}

\* C11: a get_last_block call that reads a cached value which is stale while
\* in_process is set returns that cached result in the same step: it does not
\* go on to the remote query and does not wait.
StaleReadDuringRefreshReturnsCached ==
    (/\ ev.kind \in {"cached", "query"}
     /\ ev.seen.some
     /\ ev.at - ev.seen.last >= Threshold
     /\ ev.flag) =>
        /\ ev.kind = "cached"
        /\ ev.ret = ev.seen.result
        /\ cpc[ev.task] = "idle"

\* A caller has been handed the stale cached result while another caller's
\* refresh was between its read and its write.
StaleReturnedDuringRefresh ==
    /\ ev.kind = "cached"
    /\ ev.seen.some
    /\ ev.at - ev.seen.last >= Threshold
    /\ ev.flag
    /\ in_process
    /\ \E u \in Callers : u # ev.task /\ cpc[u] = "query"

\* C12: query never retries more than 3 times; it returns NotReady only
\* after 3 retries, each after a sleep of RETRY_INTERVAL, every round-trip
\* having been answered with code 651; and a call whose every round-trip is
\* answered with 651 ends with the non-error outcome NotReady, never an error.
NotReadyAfterThreeRetries ==
    LET allNotReady == \A i \in DOMAIN q_replies :
                          q_replies[i].kind = "error" /\ q_replies[i].code = 651
    IN
    /\ q_retries <= 3
    /\ q_elapsed = q_retries * 100
    /\ q_ret = QueryNotReady =>
          /\ q_retries = 3
          /\ q_sent = 4
          /\ Len(q_replies) = 4
          /\ allNotReady
    /\ (q_pc = "done" /\ q_replies # <<>> /\ allNotReady) => q_ret = QueryNotReady

\* A call answered with 651 on its first round-trip and on each of its three
\* retries has returned NotReady after 300 ms of sleep.
NotReadyReturned ==
    /\ q_pc = "done"
    /\ q_ret = QueryNotReady
    /\ q_retries = 3
    /\ q_sent = 4
    /\ q_elapsed = 300

\* C13: a round-trip on which the transport fails is the call's last: query
\* returns ConnectionError in that step and has sent no request after the one
\* that failed, on the first attempt as after not-ready retries.
TransportFailureEndsQuery ==
    \A i \in DOMAIN q_replies :
        q_replies[i].kind = "transport" =>
            /\ i = Len(q_replies)
            /\ q_pc = "done"
            /\ q_ret = QueryErr("ConnectionError")
            /\ q_sent = i

\* The transport has failed on the round-trip made after two not-ready
\* retries and ConnectionError has been returned.
TransportFailedAfterRetries ==
    /\ q_pc = "done"
    /\ q_retries = 2
    /\ Len(q_replies) = 3
    /\ q_replies[3].kind = "transport"
    /\ q_ret = QueryErr("ConnectionError")
    /\ q_sent = 3

\* C14: a peer error whose code is not 651 ends the call in that step with a
\* LiteServer error carrying the peer's code and message, and a response that
\* is neither the expected reply nor a peer error ends it with Unknown; no
\* request is sent after either.
PeerErrorsReturnedUnretried ==
    \A i \in DOMAIN q_replies :
        /\ (q_replies[i].kind = "error" /\ q_replies[i].code # 651) =>
              /\ i = Len(q_replies)
              /\ q_pc = "done"
              /\ q_ret = [ok |-> FALSE, reply |-> "none", err |-> "LiteServer",
                          code |-> q_replies[i].code, message |-> q_replies[i].message]
              /\ q_sent = i
        /\ q_replies[i].kind = "other" =>
              /\ i = Len(q_replies)
              /\ q_pc = "done"
              /\ q_ret = QueryErr("Unknown")
              /\ q_sent = i

\* A peer error of code 652 on the first round-trip has been returned as a
\* LiteServer error with that code and its message.
PeerErrorReturned ==
    /\ q_pc = "done"
    /\ q_replies = <<PeerError(652, "m2")>>
    /\ q_ret.err = "LiteServer"
    /\ q_ret.code = 652
    /\ q_ret.message = "m2"
    /\ q_sent = 1

\* C15: in the NotReady fallback of get_contract_state the account-state
\* query is issued only at history entries older than the requested head,
\* never at a block whose seqno is greater than or equal to the head's.
FallbackOnlyAtOlderBlocks ==
    \A i \in 2..Len(r_sent) :
        r_sent[i].q = "GetAccountState" => r_sent[i].seqno < r_head.seqno

\* The fallback has queried the account state again at the head's own seqno.
FallbackQueriedHeadAgain ==
    /\ Len(r_sent) >= 2
    /\ r_sent[1].q = "GetAccountState"
    /\ r_sent[2].q = "GetAccountState"
    /\ r_sent[2].seqno = r_head.seqno

\* C16: the NotReady fallback of get_contract_state ends at the first query
\* that yields data, whose reply is the one decoded, and at the first query
\* that fails, whose error is returned; when every query has answered
\* NotReady and none is left the call returns the error NotReady; at most 5
\* fallback queries follow the query at the head.
FallbackStopsAtFirstData ==
    LET asked == {i \in DOMAIN r_sent : r_sent[i].q = "GetAccountState"} IN
    /\ Cardinality(asked) <= 1 + 5
    /\ \A i \in DOMAIN r_answers :
          /\ r_answers[i] = "Data" =>
                /\ i = Len(r_answers)
                /\ Cardinality(asked) = i
                /\ \E wall \in WallClocks : r_state = DecodeAccountState(r_resp, wall)
          /\ r_answers[i] \notin {"Data", "NotReady"} =>
                /\ i = Len(r_answers)
                /\ Cardinality(asked) = i
                /\ r_state = StateErr(r_answers[i])
    /\ (/\ r_pc = "done"
        /\ r_answers # <<>>
        /\ \A i \in DOMAIN r_answers : r_answers[i] = "NotReady") =>
          /\ r_state = StateErr("NotReady")
          /\ ~r_ret.ok
          /\ r_ret.err = "NotReady"

\* The query at the head and four fallback queries were answered NotReady and
\* the fifth fallback query has yielded the data the call returned.
FifthFallbackYieldedData ==
    /\ r_pc = "done"
    /\ r_op = "get_contract_state"
    /\ Len(r_answers) = 6
    /\ \A i \in 1..5 : r_answers[i] = "NotReady"
    /\ r_answers[6] = "Data"
    /\ r_state.kind = "Exists"
    /\ r_ret.ok

\* C17: when the decoding of an account-state response gives Exists, gen_lt
\* and gen_utime are those of the shard state, whatever the wall clock.
GenTimingsFromShardState ==
    (d_done /\ d_state.kind = "Exists") =>
        /\ d_state.gen_lt = d_resp.proof.gen_lt
        /\ d_state.gen_utime = d_resp.proof.gen_utime

\* Exists has been given a gen_utime that is the wall clock less ten seconds
\* and not the shard state's generation time.
GenUtimeFromWallClock ==
    /\ d_done
    /\ d_state.kind = "Exists"
    /\ d_state.gen_utime = d_wall - 10
    /\ d_state.gen_utime # d_resp.proof.gen_utime
    /\ d_state.gen_lt = d_resp.proof.gen_lt

\* C18 as amended: an account record that decodes to the absent-account
\* variant makes get_contract_state return NotExists, not an error; for a
\* record that decodes to a full account, any structural failure while
\* decoding or verifying the proof returns InvalidAccountStateProof.
AbsentIsNotExistsProofFailureIsError ==
    /\ r_resp.state.variant = "AccountNone" => r_state = NotExists
    /\ (/\ r_resp.state.variant = "Account"
        /\ \/ ~r_resp.proof.cells
           \/ r_resp.proof.roots # 2
           \/ ~r_resp.proof.merkle
           \/ ~r_resp.proof.ss
           \/ r_resp.proof.entry = "err") =>
          r_state = StateErr("InvalidAccountStateProof")

\* get_contract_state has returned NotExists as a success for a response
\* whose account record decoded to the absent-account variant.
AbsentAccountResolved ==
    /\ r_op = "get_contract_state"
    /\ r_pc = "done"
    /\ r_resp.state.variant = "AccountNone"
    /\ r_state = NotExists
    /\ r_ret.ok

\* C18 as stated: a record that decodes to a variant other than a full
\* account gives the error InvalidAccountState, and a structural failure of
\* the proof gives InvalidAccountStateProof.
WrongVariantIsInvalidAccountState ==
    /\ r_resp.state.variant = "AccountNone" => r_state = StateErr("InvalidAccountState")
    /\ (/\ r_resp.state.variant = "Account"
        /\ \/ ~r_resp.proof.cells
           \/ r_resp.proof.roots # 2
           \/ ~r_resp.proof.merkle
           \/ ~r_resp.proof.ss
           \/ r_resp.proof.entry = "err") =>
          r_state = StateErr("InvalidAccountStateProof")

\* C20: an account record whose bytes fail to decode makes get_contract_state
\* return an error, never a success value.
UndecodableRecordIsError ==
    r_resp.state.variant = "undecodable" => ~r_state.ok

\* get_contract_state has returned NotExists as a success for a response
\* whose account record failed to decode.
UndecodableRecordResolvedNotExists ==
    /\ r_op = "get_contract_state"
    /\ r_pc = "done"
    /\ r_resp.state.variant = "undecodable"
    /\ r_state = NotExists
    /\ r_ret.ok

\* C19: a get_latest_key_block call that returns an error, at whatever step
\* it fails, leaves time_diff as it was when the call was made.
TimeDiffUnchangedByFailedCall ==
    (k_pc = "done" /\ ~k_ret.ok) => time_diff = k_time_diff

\* A call whose LookupBlock query for the previous key block failed has
\* returned an error after writing time_diff.
TimeDiffWrittenByFailedCall ==
    /\ k_pc = "done"
    /\ ~k_ret.ok
    /\ k_sent = <<GetBlock(k_head), LookupBlock(MasterBlock(k_info.prev_key_block_seqno))>>
    /\ time_diff # k_time_diff

\* C21: the health check answers 200 exactly when the reliability counter is
\* at most max_unreliability and TimeDiff is at most max_time_diff, and 503
\* otherwise; answering changes neither of them nor the walker, and
\* get_latest_key_block can be called and called again whatever the status.
LivenessStatusOnlyReported ==
    /\ [][h_status' # h_status =>
             /\ h_status' = IF /\ unreliability <= max_unreliability
                               /\ time_diff <= max_time_diff
                            THEN StatusOk ELSE StatusUnavailable
             /\ UNCHANGED <<unreliability, keyBlockVars>>]_vars
    /\ [](k_pc = "idle" => ENABLED CallGetLatestKeyBlock)
    /\ [](k_pc = "done" => ENABLED KAgain)

\* The health check has answered 503 on TimeDiff alone, and a call of
\* get_latest_key_block made while TimeDiff was over the limit has returned
\* its block.
UnavailableYetBlockReturned ==
    /\ h_status = StatusUnavailable
    /\ unreliability <= max_unreliability
    /\ k_time_diff > max_time_diff
    /\ time_diff > max_time_diff
    /\ k_pc = "done"
    /\ k_ret.ok

\* C22: every error an operation returns is relayed by the dispatch layer
\* with the numeric code of its kind, whatever else the error carries, and
\* two different kinds never have the same code.
EveryReturnedErrorHasItsCode ==
    /\ (s_pc = "done" /\ ~s_ret.ok) =>
          /\ s_relayed.kind = "error"
          /\ s_ret.err \in DOMAIN QueryError_code
    /\ \A k1 \in DOMAIN QueryError_code, k2 \in DOMAIN QueryError_code :
          k1 # k2 => QueryError_code[k1] # QueryError_code[k2]

\* send_message has returned the error NotReady, for which QueryError::code
\* has no arm: nothing could be relayed as its code.
NotReadyHasNoCode ==
    /\ s_pc = "done"
    /\ s_ret = SendErr("NotReady")
    /\ s_relayed = NoCode

\* C26: send_message returns success only when the last reply of the peer to
\* its request was the expected data reply; when the message or the request
\* fails to serialize it returns FailedToSerialize and nothing has been sent;
\* when the peer answered not-ready to the request and to each of its
\* MAX_RETIRES retries it returns the error NotReady.
SendMessageOutcomes ==
    s_pc \in {"returned", "done"} =>
       /\ s_ret.ok => /\ q_sent >= 1
                     /\ Len(q_replies) = q_sent
                     /\ q_replies[Len(q_replies)] = ExpectedReply
       /\ s_ret.err = "FailedToSerialize" => q_sent = 0 /\ q_replies = <<>>
       /\ (/\ Len(q_replies) = MAX_RETIRES + 1
           /\ \A i \in 1..Len(q_replies) :
                 q_replies[i].kind = "error" /\ q_replies[i].code = ERR_NOT_READY)
          => s_ret = SendErr("NotReady")
       /\ s_ret = SendErr("NotReady") => q_sent = MAX_RETIRES + 1

\* send_message has returned NotReady after the request and three retries.
SendMessageNotReady ==
    /\ s_pc = "done"
    /\ s_ret = SendErr("NotReady")
    /\ q_sent = MAX_RETIRES + 1
    /\ q_elapsed = MAX_RETIRES * RETRY_INTERVAL

\* C23: a SubscribeForNewBlock request leaves the registry, the notifier and
\* what it has sent unchanged, and the connection goes on reading: it can
\* subscribe to any address afterwards. An id enters an address's map only
\* by that connection's SubscribeAccount request for the address, and a
\* notification is only ever sent to an id of the tick's snapshot, so the
\* request brings no notification at any later time.
NewBlockSubscriptionInert ==
    /\ [][n_ev'.kind = "new_block" =>
             /\ UNCHANGED <<address_subscriptions, CONNECTION_ID, reading, sink_open, n_pc,
                            addresses_callbacks, n_todo, n_address, n_callbacks, n_sent>>
             /\ n_ev'.conn \in reading']_vars
    /\ [](n_ev.kind = "new_block" =>
             \A a \in Addresses : ENABLED SubscribeAccount(n_ev.conn, a))
    /\ [][\A a \in Addresses, c \in ConnectionIds :
             (c \in address_subscriptions'[a] /\ c \notin address_subscriptions[a])
                => n_ev' = NEvent("subscribe", c, a)]_vars
    /\ [](\A p \in n_sent : p[2] \in addresses_callbacks[p[1]])

\* A connection subscribed to no address has just made a new-block request,
\* in a tick that has sent a notification to another connection.
NewBlockRequestDuringTick ==
    /\ n_ev.kind = "new_block"
    /\ \A a \in Addresses : n_ev.conn \notin address_subscriptions[a]
    /\ \A a \in Addresses : <<a, n_ev.conn>> \notin n_pruned
    /\ n_sent # {}

\* C24: a SubscribeAccount request adds the connection's id to the map of
\* that address, which is created when absent, and changes no other id and
\* no other address; made again by the same connection it leaves the
\* registry as it is. Each connection takes the value of CONNECTION_ID as its
\* id and increments it, so that every id in use is below the counter and no
\* two connections share one.
SubscribeAddressInsertsOwnId ==
    /\ [][n_ev'.kind = "subscribe" =>
             /\ address_subscriptions'[n_ev'.address]
                  = (IF address_subscriptions[n_ev'.address] = NoEntry THEN {}
                     ELSE address_subscriptions[n_ev'.address]) \cup {n_ev'.conn}
             /\ \A b \in Addresses \ {n_ev'.address} :
                   address_subscriptions'[b] = address_subscriptions[b]
             /\ n_ev'.conn \in address_subscriptions[n_ev'.address]
                   => address_subscriptions' = address_subscriptions]_vars
    /\ [][n_ev'.kind = "connect" =>
             /\ n_ev'.conn = CONNECTION_ID
             /\ CONNECTION_ID' = CONNECTION_ID + 1
             /\ n_ev'.conn \notin reading \cup sink_open]_vars
    /\ [](\A c \in ConnectionIds :
             (c \in reading \cup sink_open \/ \E a \in Addresses : c \in address_subscriptions[a])
                => c < CONNECTION_ID)

\* The second connection has just subscribed to an address the first is
\* subscribed to, which is also subscribed to the other address.
SecondSubscriberInserted ==
    /\ n_ev = NEvent("subscribe", 1, "A")
    /\ address_subscriptions["A"] = {0, 1}
    /\ address_subscriptions["B"] = {0}

\* C27: transaction_monitoring always has a next step. A failed pool.get ends
\* the tick with nothing sent; a failed status query goes on to the next
\* address of the snapshot, or to the sleep when there is none, and sends
\* nothing; a failed send is followed by the pruning and then by the next
\* subscriber, the next address or the sleep. An address whose status query
\* failed is not visited again in the tick and none of its subscribers is
\* sent to, and at the end of a tick every subscriber of the snapshot's
\* other addresses has been sent to.
NotifierGoesOnAfterFailures ==
    /\ [](ENABLED NotifierTask)
    /\ [][/\ n_ev'.kind = "get_failed" => n_pc' = "sleep" /\ n_sent' = {}
          /\ n_ev'.kind = "query_failed" =>
                /\ n_pc' = IF n_todo' # {} THEN "address" ELSE "sleep"
                /\ n_sent' = n_sent
          /\ n_ev'.kind = "send_failed" => n_pc' = "prune"
          /\ n_ev'.kind = "pruned" =>
                n_pc' = IF n_callbacks' # {} THEN "send"
                        ELSE IF n_todo' # {} THEN "address" ELSE "sleep"]_vars
    /\ [](\A a \in n_failed :
             /\ a \notin n_todo
             /\ \A c \in ConnectionIds : <<a, c>> \notin n_sent)
    /\ []((n_pc = "sleep" /\ n_failed # {}) =>
             \A a \in Addresses \ n_failed : \A c \in ConnectionIds :
                c \in addresses_callbacks[a] => <<a, c>> \in n_sent)

\* A tick has ended in which the status query failed for one address and the
\* subscribers of the other were sent to.
TickEndedAfterFailedQuery ==
    /\ n_pc = "sleep"
    /\ n_failed = {"A"}
    /\ addresses_callbacks["A"] # NoEntry
    /\ addresses_callbacks["B"] = {0, 1}
    /\ n_sent = {<<"B", 0>>, <<"B", 1>>}

\* C28: in a tick, notifications are sent only to the subscribers an address
\* has in the tick's snapshot, never twice to the same subscriber of the same
\* address, and at the end of a tick in which pool.get succeeded exactly the
\* subscribers the snapshot has for the addresses whose status query
\* succeeded have been sent to. A subscriber added after the snapshot is sent
\* nothing in the tick.
OneNotificationPerSnapshotSubscriber ==
    /\ [](\A p \in n_sent : /\ p[2] \in addresses_callbacks[p[1]]
                            /\ p[1] \notin n_failed)
    /\ []((n_pc = "sleep" /\ n_got) =>
             n_sent = {p \in Addresses \X ConnectionIds :
                          p[2] \in addresses_callbacks[p[1]] /\ p[1] \notin n_failed})
    /\ [][n_ev'.kind \in {"sent", "send_failed"} =>
             /\ <<n_ev'.address, n_ev'.conn>> \notin n_sent
             /\ n_sent' = n_sent \cup {<<n_ev'.address, n_ev'.conn>>}]_vars

\* A tick has ended in which a subscriber that was added to an address after
\* the snapshot was sent nothing while the address's earlier subscriber was.
LateSubscriberSkipped ==
    /\ n_pc = "sleep"
    /\ n_got
    /\ 1 \in address_subscriptions["A"]
    /\ addresses_callbacks["A"] = {0}
    /\ n_sent = {<<"A", 0>>}

FirstCallsQueryThemselves ==
    /\ (ev.kind \in {"cached", "query"} /\ ~ev.seen.some) =>
          /\ ev.kind = "query"
          /\ ev.first
          /\ cpc[ev.task] = "query" /\ cfirst[ev.task]
          /\ in_process = ev.flag
    /\ (ev.kind = "fetched" /\ ev.first) =>
          /\ ev.ret = id.result
          /\ cpc[ev.task] = "idle"

\* The second of two concurrent first calls has returned the error of its
\* own query, after the first had stored a block id.
SecondFirstCallReturnedOwnResult ==
    /\ ev.kind = "fetched"
    /\ ev.first
    /\ ~ev.ret.ok
    /\ fetch.some
    /\ fetch.last = ev.at
    /\ \A t \in Callers : cpc[t] = "idle"

CounterChangedOnlyByPoolEvents ==
    [][/\ unreliability' # unreliability =>
             pev' \in {"connect_failed", "ping_failed", "ping_ok"}
       /\ pev' = "connect_ok" => unreliability' = unreliability
       /\ (\E t \in PTasks : ppc[t] \in {"held", "queried"} /\ ppc'[t] # ppc[t]) =>
             unreliability' = unreliability]_vars

\* A connection was established while the counter stood at 5 after a failed
\* connect, and left it there. It is the second one: the first was discarded
\* as broken when a query on it failed in transport (no ping has failed), and
\* the counter was 0 before and after that query.
ConnectedWithCounterAtFive ==
    /\ pev = "connect_ok"
    /\ u_before = 5
    /\ unreliability = 5
    /\ n_connect_ok >= 2
    /\ n_ping_failed = 0
    /\ \E t \in PTasks : pret[t] = "ConnectionError" /\ ppc[t] = "idle"

\* The callers whose read-locked section set the in-flight flag and whose
\* refresh query has not returned.
RefreshWinners == {t \in Callers : cpc[t] = "query" /\ ~cfirst[t]}

\* C33: once a cached value exists at most one refresh query is in flight:
\* two callers are never both between winning the in-flight flag and clearing
\* it, first calls that started on the empty cache and finish later included.
AtMostOneRefreshInFlight ==
    id.some => Cardinality(RefreshWinners) <= 1

\* Two callers have each won the flag and neither has returned: the second
\* won it after a call that had started on the empty cache finished, and
\* cleared the flag the first had set.
TwoRefreshesInFlight ==
    /\ id.some
    /\ Cardinality(RefreshWinners) = 2
    /\ in_process

\* C34: the in-flight flag is always eventually cleared after it is set,
\* whether the refresh query succeeds, fails, or the caller that won the flag
\* is dropped at its await point.
FlagEventuallyCleared == in_process ~> ~in_process

\* The flag is set and no call is in progress: the caller that won it was
\* dropped at its query, and every later call returns the cached value.
FlagLeftSetByDroppedCaller ==
    /\ in_process
    /\ id.some
    /\ \A t \in Callers : cpc[t] = "idle"
    /\ ev.kind = "dropped"
    /\ ~ev.first

\* C35: whenever the chain-head cache holds a successful result the history
\* ring is non-empty and its front entry's sequence number is at least the
\* cached id's; the front's sequence number never decreases.
RingFrontCoversCachedId ==
    /\ []((id.some /\ id.result.ok) =>
             /\ blocks # <<>>
             /\ Head(blocks).seqno >= id.result.val.seqno)
    /\ [][blocks # <<>> =>
             /\ blocks' # <<>>
             /\ Head(blocks').seqno >= Head(blocks).seqno]_vars

\* A query has just stored a head older than the front of the ring: the
\* cached id is behind the front, which stayed.
CachedIdBehindRingFront ==
    /\ ev.kind = "fetched"
    /\ id.some
    /\ id.result.ok
    /\ Len(blocks) >= 2
    /\ Head(blocks).seqno > id.result.val.seqno

\* C36: over all writes to the chain-head cache the stored fetched_at never
\* decreases: a cached result is never replaced by the result of a query
\* that started earlier than the query whose result is cached.
FetchedAtNeverDecreases ==
    [][(id.some /\ id'.some) => id'.last >= id.last]_vars

\* The cache holds an error stamped earlier than the successful result that
\* was written before it: the query that started first finished last.
EarlierQueryOverwroteLaterResult ==
    /\ ev.kind = "fetched"
    /\ id.some
    /\ ~id.result.ok
    /\ fetch.some
    /\ fetch.last > id.last

\* C37: no engine operation holds more than one pooled connection at the same
\* time, get_transactions called without a starting id included.
OneConnectionPerOperation == r_held <= 1

\* get_transactions, called without a starting id, holds the connection it
\* acquired and the one get_contract_state acquired for it, and awaits the
\* chain head on the second.
GetTransactionsHoldsTwoConnections ==
    /\ r_op = "get_transactions"
    /\ ~r_from.some
    /\ r_pc = "head"
    /\ r_held = 2

\* C38: a subscriber whose sink is still open is never removed from the
\* registry: an id leaves an address's map only in the pruning that follows a
\* failed send of this tick to that id's own sink, whatever subscribe requests
\* arrive between the snapshot and the pruning.
OnlyDeadSubscribersRemoved ==
    [][\A a \in Addresses, c \in ConnectionIds :
          (c \in address_subscriptions[a] /\ c \notin address_subscriptions'[a]) =>
             /\ c \notin sink_open
             /\ n_pc = "prune"
             /\ n_id = c
             /\ n_address = a
             /\ <<a, c>> \in n_sent
             /\ n_ev' = NEvent("pruned", c, a)]_vars

\* A closed subscriber has just been pruned from an address whose map keeps
\* a subscriber with an open sink that subscribed after the snapshot.
PrunedBesideLateOpenSubscriber ==
    /\ n_ev.kind = "pruned"
    /\ n_ev.conn \notin sink_open
    /\ address_subscriptions[n_ev.address] # NoEntry
    /\ \E c \in address_subscriptions[n_ev.address] \cap sink_open :
          c \notin addresses_callbacks[n_ev.address]

\* C40: whenever no guard on the registry is held, the registry has no
\* address whose subscriber map is empty, after any interleaving of subscribe
\* requests and prunings.
NoEmptyAddressEntry ==
    (n_guard = NoGuard /\ \A c \in ConnectionIds : ws_guard[c] = NoGuard) =>
        \A a \in Addresses : address_subscriptions[a] # {}

\* The pruning of an address's only subscriber has just removed the address,
\* while the other address keeps its entry; the connection had subscribed to
\* both, and the notifier holds no guard.
AddressRemovedWithLastSubscriber ==
    /\ n_ev.kind = "pruned"
    /\ n_guard = NoGuard
    /\ address_subscriptions[n_ev.address] = NoEntry
    /\ \E a \in Addresses \ {n_ev.address} : n_ev.conn \in address_subscriptions[a]

\* C39: a subscriber whose sink has been closed is eventually removed from
\* every address it is subscribed to, provided the notifier keeps ticking and
\* pool acquisition and the status queries succeed again and again; a tick in
\* which the status query of an address failed prunes no subscriber of it.
ClosedSubscribersEventuallyPruned ==
    /\ \A a \in Addresses, c \in ConnectionIds :
          (c \in address_subscriptions[a] /\ c < CONNECTION_ID /\ c \notin sink_open)
             ~> (c \notin address_subscriptions[a])
    /\ [][n_ev'.kind = "pruned" => n_ev'.address \notin n_failed]_vars

\* A closed subscriber has been pruned from one address in a tick in which
\* the status query of the other address, which it is subscribed to as well,
\* failed: it is still in that address's map.
PrunedFromOneAddressOnly ==
    /\ n_ev.kind = "pruned"
    /\ \E a \in n_failed : /\ a # n_ev.address
                           /\ n_ev.conn \in address_subscriptions[a]
                           /\ n_ev.conn \in addresses_callbacks[a]

====
